---- MODULE Spec2Model ----
(***************************************************************************)
(* A model of the CoachKey2 application state: the AuthProvider (users,    *)
(* session), the DataProvider (workouts, meals, messages, progress), the   *)
(* localStorage mirror behind save/load and the zod schemas that gate the  *)
(* mutators.  Strings that the code inspects character by character        *)
(* (emails, names, passwords, phones) are sequences of one-character       *)
(* strings; ids, tokens and timestamps are strings.                        *)
(***************************************************************************)
EXTENDS Integers, Sequences, FiniteSets, TLC

VARIABLES
  users,     \* AuthProvider: const [users, setUsers]
  session,   \* AuthProvider: const [session, setSession]
  appData,   \* DataProvider: const [appData, setAppData]
  store,     \* localStorage: key -> raw text, or Absent
  now,       \* Date.now()
  tokens,    \* history: every token a session has held
  usedIds,   \* history: per collection, every id an entity has had
  lastOp,    \* the last handler that ran: its arguments, outcome and db call
  ops,       \* the number of handlers that have run
  dbUp,      \* whether a call to the remote database (db.*) succeeds
  authState, \* useAuth: const [authState, setAuthState]
  calls      \* useAuth: the signIn, signUp and signOut calls made so far

vars == <<users, session, appData, store, now, tokens, usedIds, lastOp, ops, dbUp,
          authState, calls>>

(***************************************************************************)
(* Bounds of the model.                                                    *)
(***************************************************************************)
MaxOps == 2     \* at most MaxOps handlers run
MaxTime == 1    \* the clock takes the values 0..MaxTime
MaxRnd == 0     \* Math.random() yields one of the suffixes 0..MaxRnd

(***************************************************************************)
(* Characters and strings.                                                 *)
(***************************************************************************)
Uppercase == <<"A","B","C","D","E","F","G","H","I","J","K","L","M",
               "N","O","P","Q","R","S","T","U","V","W","X","Y","Z">>
Lowercase == <<"a","b","c","d","e","f","g","h","i","j","k","l","m",
               "n","o","p","q","r","s","t","u","v","w","x","y","z">>
Digits == {"0","1","2","3","4","5","6","7","8","9"}

IsUpper(c) == \E i \in DOMAIN Uppercase : Uppercase[i] = c
IsLower(c) == \E i \in DOMAIN Lowercase : Lowercase[i] = c
IsDigit(c) == c \in Digits
IsLetter(c) == IsUpper(c) \/ IsLower(c)
IsSpace(c) == c = " "

LowerChar(c) ==
  IF IsUpper(c)
    THEN Lowercase[CHOOSE i \in DOMAIN Uppercase : Uppercase[i] = c]
    ELSE c

\* String.prototype.toLowerCase
ToLowerCase(s) == [i \in DOMAIN s |-> LowerChar(s[i])]

Some(s, P(_)) == \E i \in DOMAIN s : P(s[i])
All(s, P(_)) == \A i \in DOMAIN s : P(s[i])
Count(s, c) == Cardinality({i \in DOMAIN s : s[i] = c})

RECURSIVE TrimStart(_)
TrimStart(s) ==
  IF s # <<>> /\ IsSpace(Head(s)) THEN TrimStart(Tail(s)) ELSE s

RECURSIVE TrimEnd(_)
TrimEnd(s) ==
  IF s # <<>> /\ IsSpace(s[Len(s)])
    THEN TrimEnd(SubSeq(s, 1, Len(s) - 1))
    ELSE s

\* String.prototype.trim
Trim(s) == TrimEnd(TrimStart(s))

IsAngle(c) == c \in {"<", ">"}
NotAngle(c) == ~IsAngle(c)

\* sanitizeString: input.trim().replace(/[<>]/g, '')
SanitizeString(input) == SelectSeq(Trim(input), NotAngle)

(***************************************************************************)
(* Absent values.  A missing optional string field is Undefined, a missing *)
(* optional text field (phone) is the empty text, and `null` is a record   *)
(* of its own so that it compares with any other record.                   *)
(***************************************************************************)
Undefined == "undefined"
null == [null |-> TRUE]
Absent == [absent |-> TRUE]

\* uid: Date.now().toString(36) + Math.random().toString(36).slice(2, 7).
\* The time part has a fixed width over the clock's range, so the
\* concatenation determines both parts; the model writes a separator.
uid(t, r) == "u" \o ToString(t) \o "." \o ToString(r)

Rnd == 0..MaxRnd

\* new Date().toISOString()
ISOString(t) == "T" \o ToString(t)

(***************************************************************************)
(* Validation Engine (utils/validation.ts).  A schema yields the list of   *)
(* zod issues in the order zod reports them; validateData succeeds iff     *)
(* the list is empty, and the mutators throw the first issue's message.    *)
(***************************************************************************)
Issue(f, m) == <<[field |-> f, message |-> m]>>
When(cond, f, m) == IF cond THEN Issue(f, m) ELSE <<>>

PasswordMinLen == 8
NameMinLen == 2
NameMaxLen == 50
PhoneMinLen == 10

IsSpecial(c) == ~(IsLetter(c) \/ IsDigit(c))

\* passwordSchema
passwordSchema(f, p) ==
     When(Len(p) < PasswordMinLen, f, "Password must be at least 8 characters long")
  \o When(~Some(p, IsUpper), f, "Password must contain at least one uppercase letter")
  \o When(~Some(p, IsLower), f, "Password must contain at least one lowercase letter")
  \o When(~Some(p, IsDigit), f, "Password must contain at least one number")
  \o When(~Some(p, IsSpecial), f, "Password must contain at least one special character")

IsEmailLocalChar(c) == IsLetter(c) \/ IsDigit(c) \/ c \in {"_", "'", "+", "-", "."}
IsEmailDomainChar(c) == IsLetter(c) \/ IsDigit(c) \/ c \in {"-", "."}

\* zod's string().email(): one "@", a local part of address characters that
\* neither starts nor ends with a dot, and a domain of dot-separated labels
\* whose last label has two letters or more.
IsEmail(e) ==
  /\ Count(e, "@") = 1
  /\ LET at == CHOOSE i \in DOMAIN e : e[i] = "@"
         local == SubSeq(e, 1, at - 1)
         domain == SubSeq(e, at + 1, Len(e))
     IN /\ local # <<>>
        /\ All(local, IsEmailLocalChar)
        /\ local[1] # "." /\ local[Len(local)] # "."
        /\ \A i \in 1..(Len(local) - 1) : ~(local[i] = "." /\ local[i + 1] = ".")
        /\ Len(domain) >= 4
        /\ All(domain, IsEmailDomainChar)
        /\ domain[1] \notin {".", "-"}
        /\ \A i \in 1..(Len(domain) - 1) : ~(domain[i] = "." /\ domain[i + 1] = ".")
        /\ \E d \in 2..(Len(domain) - 2) :
             /\ domain[d] = "."
             /\ \A i \in (d + 1)..Len(domain) : IsLetter(domain[i])

\* emailSchema
emailSchema(f, e) ==
     When(~IsEmail(e), f, "Please enter a valid email address")
  \o When(Len(e) < 1, f, "Email is required")

IsNameChar(c) == IsLetter(c) \/ IsSpace(c) \/ c \in {"'", "-"}

\* nameSchema
nameSchema(f, n) ==
     When(Len(n) < NameMinLen, f, "Name must be at least 2 characters long")
  \o When(Len(n) > NameMaxLen, f, "Name must be less than 50 characters")
  \o When(~(n # <<>> /\ All(n, IsNameChar)), f,
          "Name can only contain letters, spaces, hyphens, and apostrophes")

IsPhoneChar(c) == IsDigit(c) \/ IsSpace(c) \/ c \in {"-", "(", ")"}

IsPhone(p) ==
  LET rest == IF p # <<>> /\ Head(p) = "+" THEN Tail(p) ELSE p
  IN rest # <<>> /\ All(rest, IsPhoneChar)

\* phoneSchema: optional; an optional text is <<>> (undefined) or <<text>>
phoneSchema(f, o) ==
  IF o = <<>> THEN <<>>
  ELSE   When(~IsPhone(o[1]), f, "Please enter a valid phone number")
      \o When(Len(o[1]) < PhoneMinLen, f, "Phone number must be at least 10 digits")

Roles == {"trainer", "client"}

\* z.enum(['trainer', 'client']): a value outside the enum is a type error,
\* which aborts the object so that its refinement is not run.
roleSchema(f, r) == When(r \notin Roles, f, "Invalid enum value")

\* userRegistrationSchema without its refinement
userRegistrationSchemaNoRefine(payload) ==
     nameSchema("name", payload.name)
  \o emailSchema("email", payload.email)
  \o passwordSchema("password", payload.password)
  \o phoneSchema("phone", payload.phone)
  \o roleSchema("role", payload.role)

\* userRegistrationSchema: the object's fields in declaration order, then
\* the refinement password === confirmPassword on path confirmPassword.
userRegistrationSchema(payload) ==
  LET fields ==    nameSchema("name", payload.name)
                \o emailSchema("email", payload.email)
                \o passwordSchema("password", payload.password)
                \o phoneSchema("phone", payload.phone)
                \o roleSchema("role", payload.role)
      aborted == payload.role \notin Roles
  IN fields \o When(~aborted /\ payload.password # payload.confirmPassword,
                    "confirmPassword", "Passwords don't match")

\* clientCreationSchema
clientCreationSchema(clientData) ==
     nameSchema("name", clientData.name)
  \o emailSchema("email", clientData.email)
  \o phoneSchema("phone", clientData.phone)
  \o passwordSchema("temporaryPassword", clientData.temporaryPassword)

Has(r, f) == f \in DOMAIN r

\* z.string().min(lo, loMsg).max(hi, hiMsg) on field f of r; a missing
\* field is zod's "Required"
Text(r, f, lo, loMsg, hi, hiMsg) ==
  IF ~Has(r, f) THEN Issue(f, "Required")
  ELSE When(Len(r[f]) < lo, f, loMsg) \o When(Len(r[f]) > hi, f, hiMsg)

\* z.string().max(hi, hiMsg).optional()
OptText(r, f, hi, hiMsg) ==
  IF ~Has(r, f) THEN <<>> ELSE When(Len(r[f]) > hi, f, hiMsg)

\* z.number().min(lo, loMsg).max(hi, hiMsg)
Number(r, f, lo, loMsg, hi, hiMsg) ==
  IF ~Has(r, f) THEN Issue(f, "Required")
  ELSE When(r[f] < lo, f, loMsg) \o When(r[f] > hi, f, hiMsg)

\* z.number().min(lo, loMsg).max(hi, hiMsg).optional()
OptNumber(r, f, lo, loMsg, hi, hiMsg) ==
  IF ~Has(r, f) THEN <<>>
  ELSE When(r[f] < lo, f, loMsg) \o When(r[f] > hi, f, hiMsg)

\* z.enum(values) and z.enum(values).optional()
Enum(r, f, values) ==
  IF ~Has(r, f) THEN Issue(f, "Required")
  ELSE When(r[f] \notin values, f, "Invalid enum value")
OptEnum(r, f, values) ==
  IF ~Has(r, f) THEN <<>> ELSE When(r[f] \notin values, f, "Invalid enum value")

RECURSIVE Flatten(_)
Flatten(ss) == IF ss = <<>> THEN <<>> ELSE Head(ss) \o Flatten(Tail(ss))

\* workoutExerciseSchema
workoutExerciseSchema(ex) ==
     Text(ex, "name", 1, "Exercise name is required", 100, "Exercise name too long")
  \o Number(ex, "sets", 1, "Sets must be at least 1", 20, "Sets cannot exceed 20")
  \o Number(ex, "reps", 1, "Reps must be at least 1", 1000, "Reps cannot exceed 1000")
  \o OptNumber(ex, "weight", 0, "Weight cannot be negative", 1000, "Weight cannot exceed 1000kg")
  \o OptNumber(ex, "duration", 0, "Duration cannot be negative", 480, "Duration cannot exceed 8 hours")
  \o OptNumber(ex, "restTime", 0, "Rest time cannot be negative", 600, "Rest time cannot exceed 10 minutes")

\* workoutSchema
workoutSchema(w) ==
     Text(w, "name", 1, "Workout name is required", 100, "Workout name too long")
  \o (IF ~Has(w, "exercises") THEN Issue("exercises", "Required")
      ELSE    When(Len(w.exercises) < 1, "exercises", "At least one exercise is required")
           \o Flatten([i \in DOMAIN w.exercises |-> workoutExerciseSchema(w.exercises[i])]))
  \o OptText(w, "notes", 500, "Notes cannot exceed 500 characters")
  \o OptEnum(w, "difficulty", {"beginner", "intermediate", "advanced"})
  \o OptText(w, "category", 50, "Category name too long")

\* mealSchema
mealSchema(m) ==
     Text(m, "name", 1, "Meal name is required", 100, "Meal name too long")
  \o Enum(m, "type", {"breakfast", "lunch", "dinner", "snack"})
  \o Number(m, "calories", 0, "Calories cannot be negative", 5000, "Calories seem too high")
  \o Number(m, "protein", 0, "Protein cannot be negative", 500, "Protein seems too high")
  \o Number(m, "carbs", 0, "Carbs cannot be negative", 1000, "Carbs seem too high")
  \o Number(m, "fat", 0, "Fat cannot be negative", 500, "Fat seems too high")
  \o OptNumber(m, "fiber", 0, "Fiber cannot be negative", 100, "Fiber seems too high")
  \o OptNumber(m, "sugar", 0, "Sugar cannot be negative", 500, "Sugar seems too high")
  \o OptNumber(m, "sodium", 0, "Sodium cannot be negative", 10000, "Sodium seems too high")
  \o OptText(m, "servingSize", 50, "Serving size description too long")
  \o OptText(m, "notes", 300, "Notes cannot exceed 300 characters")

\* the measurements object of progressSchema
measurementsSchema(ms) ==
     OptNumber(ms, "chest", 50, "Chest measurement seems too low", 200, "Chest measurement seems too high")
  \o OptNumber(ms, "waist", 40, "Waist measurement seems too low", 200, "Waist measurement seems too high")
  \o OptNumber(ms, "hips", 50, "Hip measurement seems too low", 200, "Hip measurement seems too high")
  \o OptNumber(ms, "arms", 15, "Arm measurement seems too low", 80, "Arm measurement seems too high")
  \o OptNumber(ms, "thighs", 30, "Thigh measurement seems too low", 120, "Thigh measurement seems too high")
  \o OptNumber(ms, "neck", 25, "Neck measurement seems too low", 60, "Neck measurement seems too high")

\* progressSchema
progressSchema(e) ==
     OptNumber(e, "weight", 20, "Weight seems too low", 500, "Weight seems too high")
  \o OptNumber(e, "bodyFat", 1, "Body fat percentage too low", 60, "Body fat percentage too high")
  \o OptNumber(e, "muscle", 10, "Muscle mass seems too low", 200, "Muscle mass seems too high")
  \o (IF Has(e, "measurements") THEN measurementsSchema(e.measurements) ELSE <<>>)
  \o OptNumber(e, "mood", 1, "Mood rating must be between 1-10", 10, "Mood rating must be between 1-10")
  \o OptNumber(e, "energy", 1, "Energy rating must be between 1-10", 10, "Energy rating must be between 1-10")
  \o OptNumber(e, "sleep", 0, "Sleep hours cannot be negative", 24, "Sleep hours cannot exceed 24")
  \o OptText(e, "notes", 500, "Notes cannot exceed 500 characters")

\* messageSchema; receiverId is an id, whose only length that matters is 0
messageSchema(m) ==
     Text(m, "content", 1, "Message cannot be empty", 1000, "Message too long")
  \o (IF ~Has(m, "receiverId") THEN Issue("receiverId", "Required")
      ELSE When(m.receiverId = "", "receiverId", "Receiver ID is required"))

\* validateData that reports success whatever the issues
validateDataLenient(issues) == [success |-> TRUE, errors |-> issues]

\* validateData: { success, errors }
validateData(issues) == [success |-> issues = <<>>, errors |-> issues]

(***************************************************************************)
(* The durable key-value store (localStorage) behind save and load.        *)
(***************************************************************************)
\* JSON.stringify / JSON.parse: the text of a value, and the value of a text.
\* JSON drops a field that holds undefined and the code reads a dropped field
\* as undefined; the model writes Undefined in both cases, so that the text
\* determines the value.
Stringify(v) == [text |-> v]
Parse(raw) == raw.text

\* a save that writes nothing
saveNothing(st, k, v) == st

\* save: localStorage.setItem(k, JSON.stringify(v))
save(st, k, v) == [st EXCEPT ![k] = Stringify(v)]

\* localStorage.removeItem(k)
removeItem(st, k) == [st EXCEPT ![k] = Absent]

\* a stored text that JSON.parse throws on, or the empty text
Garbage == [garbage |-> TRUE]

\* load: raw ? JSON.parse(raw) : fallback, and the fallback when JSON.parse
\* throws (the text of a JSON value is never the empty string, so of the
\* texts that save wrote none takes the fallback)
load(st, k, fallback) ==
  IF st[k] = Absent \/ st[k] = Garbage THEN fallback ELSE Parse(st[k])

(***************************************************************************)
(* Texts used as inputs.                                                   *)
(***************************************************************************)
TrainerEmail == <<"t","r","a","i","n","e","r","@","f","i","t",".","a","p","p">>
ClientEmail == <<"c","l","i","e","n","t","@","f","i","t",".","a","p","p">>
TrainerPassword == <<"t","r","a","i","n","e","r","1","2","3">>
ClientPassword == <<"c","l","i","e","n","t","1","2","3">>
TrainerName == <<"A","l","e","x"," ","J","o","h","n","s","o","n">>
ClientName == <<"S","a","r","a","h"," ","W","i","l","s","o","n">>
TrainerPhone == <<"+","1"," ","(","5","5","5",")"," ","1","2","3","-","4","5","6","7">>
ClientPhone == <<"+","1"," ","(","5","5","5",")"," ","9","8","7","-","6","5","4","3">>

EmailUpper == <<"A","@","B",".","c","o","m">>      \* "A@B.com"
EmailLower == <<"a","@","b",".","c","o","m">>      \* "a@b.com"
EmailBad == <<"a","b">>
PwGood == <<"A","b","c","d","e","f","g","1","!">>  \* "Abcdefg1!"
PwWeak == <<"a","b","c">>
NameGood == <<" ","A","l"," ">>                     \* " Al "
NameShort == <<"A">>
PhoneBad == <<"1","2">>

(***************************************************************************)
(* AuthProvider.                                                           *)
(***************************************************************************)
\* A user.  activityLog, dateJoined and preferences are constants of the
\* record that no handler reads, and are left out; `clients` of a user that
\* has none is the empty list, which is how the code reads it
\* (x.clients || []).
User(id, role, name, email, password, phone, trainerId, clients, isActive, lastLogin) ==
  [id |-> id, role |-> role, name |-> name, email |-> email,
   password |-> password, phone |-> phone, trainerId |-> trainerId,
   clients |-> clients, isActive |-> isActive, lastLogin |-> lastLogin]

\* initialUsers when nothing usable is saved
DefaultUsers ==
  << User("trainer-1", "trainer", TrainerName, TrainerEmail, TrainerPassword,
          TrainerPhone, Undefined, <<>>, TRUE, Undefined),
     User("client-1", "client", ClientName, ClientEmail, ClientPassword,
          ClientPhone, "trainer-1", <<>>, TRUE, Undefined) >>

EmptyData == [workouts |-> <<>>, meals |-> <<>>, messages |-> <<>>, progress |-> <<>>]

Ids(seq) == {seq[i].id : i \in DOMAIN seq}

\* {...x, ...patch}
Spread(x, patch) ==
  [f \in DOMAIN x \cup DOMAIN patch |-> IF f \in DOMAIN patch THEN patch[f] ELSE x[f]]

\* payload.phone ? sanitizeString(payload.phone) : undefined
PhoneOf(o) == IF o # <<>> /\ o[1] # <<>> THEN SanitizeString(o[1]) ELSE <<>>

\* a uniqueness check that finds nothing
EmailTakenNever(us, email) == FALSE

\* register's uniqueness check: users.find((u) => u.email === payload.email)
EmailTaken(us, email) == \E i \in DOMAIN us : us[i].email = email

\* users.find((u) => u.role === "trainer")?.id
FirstTrainerId(us) ==
  IF \E i \in DOMAIN us : us[i].role = "trainer"
    THEN us[CHOOSE i \in DOMAIN us :
              us[i].role = "trainer" /\ \A j \in 1..(i - 1) : us[j].role # "trainer"].id
    ELSE Undefined

\* register storing the email as typed
RegisteredUserRawEmail(id, payload, us) ==
  User(id, payload.role, SanitizeString(payload.name), payload.email,
       payload.password, PhoneOf(payload.phone),
       IF payload.role = "client" THEN FirstTrainerId(us) ELSE Undefined,
       <<>>, TRUE, Undefined)

\* the user that register builds
RegisteredUser(id, payload, us) ==
  User(id, payload.role, SanitizeString(payload.name), ToLowerCase(payload.email),
       payload.password, PhoneOf(payload.phone),
       IF payload.role = "client" THEN FirstTrainerId(us) ELSE Undefined,
       <<>>, TRUE, Undefined)

\* the user that createClient builds
ClientUser(id, clientData, trainerId) ==
  User(id, "client", SanitizeString(clientData.name), ToLowerCase(clientData.email),
       clientData.temporaryPassword, PhoneOf(clientData.phone),
       trainerId, <<>>, TRUE, Undefined)

RegPayload(name, email, password, confirmPassword, phone, role) ==
  [name |-> name, email |-> email, password |-> password,
   confirmPassword |-> confirmPassword, phone |-> phone, role |-> role]

\* the registration payloads the model submits: the valid ones, and one
\* payload for each way of failing the schema
RegPayloads ==
  {RegPayload(NameGood, EmailUpper, PwGood, PwGood, <<>>, "client"),
   RegPayload(NameGood, EmailLower, PwGood, PwGood, <<TrainerPhone>>, "trainer"),
   RegPayload(NameGood, TrainerEmail, PwGood, PwGood, <<>>, "client"),
   RegPayload(NameShort, EmailLower, PwGood, PwGood, <<>>, "client"),
   RegPayload(NameGood, EmailBad, PwGood, PwWeak, <<PhoneBad>>, "client"),
   RegPayload(NameGood, EmailLower, PwGood, PwWeak, <<>>, "admin")}

ClientData(name, email, phone, temporaryPassword) ==
  [name |-> name, email |-> email, phone |-> phone, temporaryPassword |-> temporaryPassword]

ClientDatas ==
  {ClientData(NameGood, EmailUpper, <<>>, PwGood),
   ClientData(NameGood, EmailLower, <<>>, PwGood),
   ClientData(NameGood, ClientEmail, <<>>, PwGood),
   ClientData(NameGood, EmailLower, <<<<>>>>, PwWeak)}

\* a handler whose catch block throws the db call's error on
OpRethrow(name, arg, err, ret, db) ==
  [op |-> name, arg |-> arg,
   err |-> IF db # "none" /\ ~dbUp THEN "Database save failed" ELSE err,
   ret |-> IF db # "none" /\ ~dbUp THEN null ELSE ret,
   db |-> db, attempts |-> IF db = "none" THEN 0 ELSE 1,
   caught |-> db # "none" /\ ~dbUp]

\* The record of a handler's run.  `db` names the db call the handler makes
\* inside its try block, `attempts` counts how often it makes the call (once:
\* no handler loops), and `caught` tells whether the call threw into the
\* handler's catch block, which logs a warning and goes on.
Op(name, arg, err, ret, db) ==
  [op |-> name, arg |-> arg, err |-> err, ret |-> ret, db |-> db,
   attempts |-> IF db = "none" THEN 0 ELSE 1,
   caught |-> db # "none" /\ ~dbUp]
Ok == "ok"

Init ==
  /\ users = DefaultUsers
  /\ session = null
  /\ appData = EmptyData
  /\ store = [users |-> Stringify(DefaultUsers), session |-> Stringify(null),
              data |-> Stringify(EmptyData)]
  /\ now = 0
  /\ tokens = {}
  /\ usedIds = [users |-> Ids(DefaultUsers), workouts |-> {}, meals |-> {},
                messages |-> {}, progress |-> {}]
  /\ dbUp = TRUE
  /\ lastOp = Op("mount", <<>>, Ok, null, "none")
  /\ ops = 0
  /\ authState = [user |-> null, loading |-> TRUE, error |-> <<>>]
  /\ calls = <<>>

\* time passes between two handlers
Tick ==
  /\ now < MaxTime
  /\ now' = now + 1
  /\ lastOp' = Op("tick", <<>>, Ok, null, "none")
  /\ UNCHANGED <<users, session, appData, store, tokens, usedIds, ops, dbUp,
                 authState, calls>>

\* the remote database goes down, or comes back
DbToggle ==
  /\ dbUp' = ~dbUp
  /\ lastOp' = Op("remote", <<>>, Ok, null, "none")
  /\ UNCHANGED <<users, session, appData, store, now, tokens, usedIds, ops,
                 authState, calls>>

\* register(payload), with the effect that saves `users`
Register(payload) ==
  LET validation == validateData(userRegistrationSchema(payload)) IN
  IF ~validation.success THEN
    /\ lastOp' = Op("register", payload, validation.errors[1].message, null, "none")
    /\ UNCHANGED <<users, session, appData, store, now, tokens, usedIds>>
  ELSE IF EmailTaken(users, payload.email) THEN
    /\ lastOp' = Op("register", payload, "Email already exists", null, "none")
    /\ UNCHANGED <<users, session, appData, store, now, tokens, usedIds>>
  ELSE
    /\ \E r \in Rnd :
         LET user == RegisteredUser(uid(now, r), payload, users) IN
         /\ users' = <<user>> \o users
         /\ store' = save(store, "users", users')
         /\ usedIds' = [usedIds EXCEPT !.users = @ \cup {user.id}]
         /\ lastOp' = Op("register", payload, Ok, user, "createUser")
    /\ UNCHANGED <<session, appData, now, tokens>>

\* login's match: same email up to letter case, and same password
Matches(u, email, password) ==
  ToLowerCase(u.email) = ToLowerCase(email) /\ u.password = password

\* a lookup that matches on the email alone
FindLoginByEmail(us, email, password) ==
  IF \E i \in DOMAIN us : ToLowerCase(us[i].email) = ToLowerCase(email)
    THEN <<us[CHOOSE i \in DOMAIN us :
                /\ ToLowerCase(us[i].email) = ToLowerCase(email)
                /\ \A j \in 1..(i - 1) : ToLowerCase(us[j].email) # ToLowerCase(email)]>>
    ELSE <<>>

\* users.find((u) => u.email.toLowerCase() === email.toLowerCase() && ...)
\* (the first match; the option is <<>> when there is none)
FindLogin(us, email, password) ==
  IF \E i \in DOMAIN us : Matches(us[i], email, password)
    THEN <<us[CHOOSE i \in DOMAIN us :
                /\ Matches(us[i], email, password)
                /\ \A j \in 1..(i - 1) : ~Matches(us[j], email, password)]>>
    ELSE <<>>

\* the state update of updateUser: u.map((x) => (x.id === id ? {...x, ...patch} : x))
PatchUsers(us, id, patch) ==
  [i \in DOMAIN us |-> IF us[i].id = id THEN Spread(us[i], patch) ELSE us[i]]

Credentials(email, password) == [email |-> email, password |-> password]

LoginInputs ==
  {Credentials(TrainerEmail, TrainerPassword),
   Credentials(ClientEmail, ClientPassword),
   Credentials(EmailUpper, PwGood),
   Credentials(TrainerEmail, ClientPassword),
   Credentials(<<>>, PwGood),
   Credentials(EmailLower, <<>>)}

\* login({email, password}), with the effects that save `session` and `users`
Login(c) ==
  LET found == FindLogin(users, c.email, c.password)
      user == found[1] IN
  IF c.email = <<>> \/ c.password = <<>> THEN
    /\ lastOp' = Op("login", c, "Email and password are required", null, "none")
    /\ UNCHANGED <<users, session, appData, store, now, tokens, usedIds>>
  ELSE IF found = <<>> THEN
    /\ lastOp' = Op("login", c, "Invalid credentials", null, "none")
    /\ UNCHANGED <<users, session, appData, store, now, tokens, usedIds>>
  ELSE IF ~user.isActive THEN
    /\ lastOp' = Op("login", c, "Account is deactivated", null, "none")
    /\ UNCHANGED <<users, session, appData, store, now, tokens, usedIds>>
  ELSE
    /\ \E r \in Rnd :
         LET token == uid(now, r) IN
         /\ session' = [userId |-> user.id, token |-> token]
         /\ tokens' = tokens \cup {token}
    /\ users' = PatchUsers(users, user.id, [lastLogin |-> ISOString(now)])
    /\ store' = save(save(store, "session", session'), "users", users')
    /\ lastOp' = Op("login", c, Ok, user, "none")
    /\ UNCHANGED <<appData, now, usedIds>>

\* a logout that leaves the store as it is
LogoutKeepsStore ==
  /\ session' = null
  /\ store' = store
  /\ lastOp' = Op("logout", <<>>, Ok, null, "none")
  /\ UNCHANGED <<users, appData, now, tokens, usedIds>>

\* logout(): setSession(null) and removeItem('session'); the effect that
\* saves `session` runs only when the state changed
Logout ==
  /\ session' = null
  /\ store' = IF session # null
                THEN save(removeItem(store, "session"), "session", null)
                ELSE removeItem(store, "session")
  /\ lastOp' = Op("logout", <<>>, Ok, null, "none")
  /\ UNCHANGED <<users, appData, now, tokens, usedIds>>

\* the patches the model applies to a user
UserPatches ==
  {[isActive |-> FALSE], [role |-> "client"], [id |-> "client-1"]}

Ghost == "ghost"   \* an id that no entity has

\* updateUser(id, patch), with the effect that saves `users`
UpdateUser(id, patch) ==
  /\ users' = PatchUsers(users, id, patch)
  /\ store' = save(store, "users", users')
  /\ usedIds' = [usedIds EXCEPT !.users = @ \cup Ids(users')]
  /\ lastOp' = Op("updateUser", [id |-> id, patch |-> patch], Ok, null, "none")
  /\ UNCHANGED <<session, appData, now, tokens>>

\* the second state update of createClient: the trainer's client list
LinkClient(us, trainerId, client) ==
  [i \in DOMAIN us |->
     IF us[i].id = trainerId
       THEN Spread(us[i], [clients |-> Append(us[i].clients, client)])
       ELSE us[i]]

\* createClient(clientData, trainerId), with the effect that saves `users`
CreateClient(clientData, trainerId) ==
  LET validation == validateData(clientCreationSchema(clientData))
      arg == [clientData |-> clientData, trainerId |-> trainerId] IN
  IF ~validation.success THEN
    /\ lastOp' = Op("createClient", arg, validation.errors[1].message, null, "none")
    /\ UNCHANGED <<users, session, appData, store, now, tokens, usedIds>>
  ELSE IF EmailTaken(users, clientData.email) THEN
    /\ lastOp' = Op("createClient", arg, "Email already exists", null, "none")
    /\ UNCHANGED <<users, session, appData, store, now, tokens, usedIds>>
  ELSE
    /\ \E r \in Rnd :
         LET client == ClientUser(uid(now, r), clientData, trainerId) IN
         /\ users' = LinkClient(<<client>> \o users, trainerId, client)
         /\ store' = save(store, "users", users')
         /\ usedIds' = [usedIds EXCEPT !.users = @ \cup {client.id}]
         /\ lastOp' = Op("createClient", arg, Ok, client, "createUser")
    /\ UNCHANGED <<session, appData, now, tokens>>

\* u.filter((x) => x.id !== id)
WithoutId(seq, id) == SelectSeq(seq, LAMBDA x : x.id # id)

\* the fields by which an entity refers to a user
Refers(x, id) ==
  \E f \in {"userId", "clientId", "trainerId", "senderId", "receiverId"} \cap DOMAIN x :
    x[f] = id

\* a deleteUser that also deletes what refers to the user
DeleteUserCascade(id) ==
  /\ users' = WithoutId(users, id)
  /\ appData' = [c \in DOMAIN appData |->
                   SelectSeq(appData[c], LAMBDA x : ~Refers(x, id))]
  /\ store' = save(save(store, "users", users'), "data", appData')
  /\ lastOp' = Op("deleteUser", id, Ok, null, "none")
  /\ UNCHANGED <<session, now, tokens, usedIds>>

\* deleteUser(id), with the effect that saves `users`
DeleteUser(id) ==
  /\ users' = WithoutId(users, id)
  /\ store' = save(store, "users", users')
  /\ lastOp' = Op("deleteUser", id, Ok, null, "none")
  /\ UNCHANGED <<session, appData, now, tokens, usedIds>>

\* the page is loaded again: AuthProvider and DataProvider are constructed
\* from the store, and their effects save what they hold
Restart ==
  LET savedUsers == load(store, "users", <<>>)
      initialUsers == IF Len(savedUsers) > 0 THEN savedUsers ELSE DefaultUsers
  IN
  /\ users' = initialUsers
  /\ session' = load(store, "session", null)
  /\ appData' = load(store, "data", EmptyData)
  /\ store' = save(save(save(store, "users", users'), "session", session'),
                   "data", appData')
  /\ usedIds' = [usedIds EXCEPT !.users = @ \cup Ids(users')]
  /\ lastOp' = Op("mount", <<>>, Ok, null, "none")
  /\ UNCHANGED <<now, tokens>>

(***************************************************************************)
(* DataProvider.                                                           *)
(***************************************************************************)
\* new Date().toISOString().split('T')[0]
ISODate(t) == "D" \o ToString(t)

\* setAppData((d) => ({...d, [coll]: [entity, ...(d[coll] || [])]}))
Prepend(d, coll, entity) == [d EXCEPT ![coll] = <<entity>> \o @]

\* an update that patches every entity of the collection
PatchEvery(d, coll, id, patch) ==
  [d EXCEPT ![coll] = [i \in DOMAIN @ |-> Spread(@[i], patch)]]

\* setAppData((d) => ({...d, [coll]: d[coll].map((x) => x.id === id ? {...x, ...patch} : x)}))
PatchById(d, coll, id, patch) ==
  [d EXCEPT ![coll] = [i \in DOMAIN @ |-> IF @[i].id = id THEN Spread(@[i], patch) ELSE @[i]]]

\* setAppData((d) => ({...d, [coll]: d[coll].filter((x) => x.id !== id)}))
RemoveById(d, coll, id) == [d EXCEPT ![coll] = WithoutId(@, id)]

\* a create handler refused its input
Refuse(name, arg, validation) ==
  /\ lastOp' = Op(name, arg, validation.errors[1].message, null, "none")
  /\ UNCHANGED <<users, session, appData, store, now, tokens, usedIds>>

\* the state update of a data handler, with the effect that saves `data`
Commit(d, coll) ==
  /\ appData' = d
  /\ store' = save(store, "data", d)
  /\ usedIds' = [usedIds EXCEPT ![coll] = @ \cup Ids(d[coll])]
  /\ UNCHANGED <<users, session, now, tokens>>

PushUps ==
  [id |-> "e-1", name |-> <<"P","u","s","h","-","u","p","s">>, sets |-> 3, reps |-> 10]

\* the workouts the model submits: two valid ones, the second with fields
\* of the caller's own, and three that fail the schema
WorkoutInputs ==
  {[name |-> <<"W">>, exercises |-> <<PushUps>>, clientId |-> "client-1"],
   [name |-> <<"W">>, exercises |-> <<PushUps>>, id |-> "w-1", completed |-> TRUE],
   [name |-> <<"W">>, exercises |-> <<>>],
   [name |-> <<"W">>, exercises |-> <<[name |-> <<"X">>, sets |-> 0, reps |-> 10]>>],
   [exercises |-> <<PushUps>>]}

WorkoutPatches == {[completed |-> TRUE], [completed |-> FALSE], [id |-> "w-1"]}

\* addWorkout(w)
AddWorkout(w) ==
  LET validation == validateData(workoutSchema(w)) IN
  IF ~validation.success THEN Refuse("addWorkout", w, validation)
  ELSE \E r \in Rnd :
         LET workout == Spread([id |-> uid(now, r), date |-> ISODate(now),
                                completed |-> FALSE, exercises |-> <<>>,
                                createdAt |-> ISOString(now),
                                updatedAt |-> ISOString(now)], w)
         IN /\ Commit(Prepend(appData, "workouts", workout), "workouts")
            /\ lastOp' = Op("addWorkout", w, Ok, workout, "createWorkout")

\* updateWorkout(id, updates)
UpdateWorkout(id, updates) ==
  LET updatedWorkout == Spread(updates, [updatedAt |-> ISOString(now)]) IN
  /\ Commit(PatchById(appData, "workouts", id, updatedWorkout), "workouts")
  /\ lastOp' = Op("updateWorkout", [id |-> id, patch |-> updates], Ok, null, "updateWorkout")

\* WorkoutsPage.handleCompleteWorkout(workout), the workout being one of the
\* rendered list: updateWorkout(workout.id, {completed: !workout.completed})
handleCompleteWorkout(workout) ==
  UpdateWorkout(workout.id, [completed |-> ~workout.completed])

\* deleteWorkout(id)
DeleteWorkout(id) ==
  /\ Commit(RemoveById(appData, "workouts", id), "workouts")
  /\ lastOp' = Op("deleteWorkout", id, Ok, null, "deleteWorkout")

MealInputs ==
  {[name |-> <<"M">>, type |-> "lunch", calories |-> 500, protein |-> 30,
    carbs |-> 50, fat |-> 10, userId |-> "client-1"],
   [name |-> <<"M">>, type |-> "lunch", calories |-> 500, protein |-> 30,
    carbs |-> 50, fat |-> 10, id |-> "m-1"],
   [name |-> <<"M">>, type |-> "lunch", calories |-> 5001, protein |-> 30,
    carbs |-> 50, fat |-> 10],
   [name |-> <<"M">>, calories |-> 500, protein |-> 30, carbs |-> 50, fat |-> 10]}

MealPatches == {[calories |-> 100], [id |-> "m-1"]}

\* logMeal(meal)
LogMeal(meal) ==
  LET validation == validateData(mealSchema(meal)) IN
  IF ~validation.success THEN Refuse("logMeal", meal, validation)
  ELSE \E r \in Rnd :
         LET newMeal == Spread([id |-> uid(now, r), date |-> ISODate(now)], meal)
         IN /\ Commit(Prepend(appData, "meals", newMeal), "meals")
            /\ lastOp' = Op("logMeal", meal, Ok, newMeal, "createMeal")

\* an updateMeal that stores the updates in place of the meal
UpdateMealReplace(id, updates) ==
  /\ Commit([appData EXCEPT !.meals =
               [i \in DOMAIN @ |-> IF @[i].id = id THEN Spread([id |-> id], updates)
                                                   ELSE @[i]]], "meals")
  /\ lastOp' = Op("updateMeal", [id |-> id, patch |-> updates], Ok, null, "updateMeal")

\* updateMeal(id, updates)
UpdateMeal(id, updates) ==
  /\ Commit(PatchById(appData, "meals", id, updates), "meals")
  /\ lastOp' = Op("updateMeal", [id |-> id, patch |-> updates], Ok, null, "updateMeal")

\* deleteMeal(id)
DeleteMeal(id) ==
  /\ Commit(RemoveById(appData, "meals", id), "meals")
  /\ lastOp' = Op("deleteMeal", id, Ok, null, "deleteMeal")

MessageInputs ==
  {[senderId |-> "client-1", receiverId |-> "trainer-1", content |-> <<"h","i">>],
   [senderId |-> "client-1", receiverId |-> "trainer-1", content |-> <<"h","i">>,
    id |-> "g-1"],
   [senderId |-> "client-1", receiverId |-> "trainer-1", content |-> <<>>],
   [senderId |-> "client-1", receiverId |-> "", content |-> <<"h","i">>]}

\* sendMessage(message)
SendMessage(message) ==
  LET validation == validateData(messageSchema(message)) IN
  IF ~validation.success THEN Refuse("sendMessage", message, validation)
  ELSE \E r \in Rnd :
         LET newMessage == Spread([id |-> uid(now, r), timestamp |-> ISOString(now),
                                   read |-> FALSE, type |-> "text"], message)
         IN /\ Commit(Prepend(appData, "messages", newMessage), "messages")
            /\ lastOp' = Op("sendMessage", message, Ok, newMessage, "createMessage")

\* markMessageRead(id)
MarkMessageRead(id) ==
  /\ Commit(PatchById(appData, "messages", id, [read |-> TRUE]), "messages")
  /\ lastOp' = Op("markMessageRead", id, Ok, null, "markMessageAsRead")

ProgressInputs ==
  {[weight |-> 70, userId |-> "client-1"],
   [weight |-> 70, id |-> "p-1"],
   [weight |-> 19],
   [measurements |-> [waist |-> 39]]}

ProgressPatches == {[weight |-> 80], [id |-> "p-1"]}

\* addProgressEntry(entry)
AddProgressEntry(entry) ==
  LET validation == validateData(progressSchema(entry)) IN
  IF ~validation.success THEN Refuse("addProgressEntry", entry, validation)
  ELSE \E r \in Rnd :
         LET newEntry == Spread([id |-> uid(now, r), date |-> ISODate(now)], entry)
         IN /\ Commit(Prepend(appData, "progress", newEntry), "progress")
            /\ lastOp' = Op("addProgressEntry", entry, Ok, newEntry, "createProgressEntry")

\* updateProgressEntry(id, updates)
UpdateProgressEntry(id, updates) ==
  /\ Commit(PatchById(appData, "progress", id, updates), "progress")
  /\ lastOp' = Op("updateProgressEntry", [id |-> id, patch |-> updates], Ok, null,
                  "updateProgressEntry")

\* deleteProgressEntry(id)
DeleteProgressEntry(id) ==
  /\ Commit(RemoveById(appData, "progress", id), "progress")
  /\ lastOp' = Op("deleteProgressEntry", id, Ok, null, "deleteProgressEntry")

\* the ids a caller passes: those of the collection, and one of no entity
IdsOf(coll) == Ids(appData[coll]) \cup {Ghost}

\* a handler runs while the budget lasts; the remote stays as it is
Budget == ops < MaxOps /\ ops' = ops + 1 /\ dbUp' = dbUp /\ UNCHANGED <<authState, calls>>

NextAuth ==
  \/ Tick
  \/ Budget /\ Restart
  \/ Budget /\ Logout
  \/ Budget /\ \E payload \in RegPayloads : Register(payload)
  \/ Budget /\ \E c \in LoginInputs : Login(c)
  \/ Budget /\ \E id \in Ids(users) \cup {Ghost}, patch \in UserPatches : UpdateUser(id, patch)
  \/ Budget /\ \E clientData \in ClientDatas, trainerId \in Ids(users) \cup {Ghost} :
                 CreateClient(clientData, trainerId)
  \/ Budget /\ \E id \in Ids(users) \cup {Ghost} : DeleteUser(id)

SpecAuth == Init /\ [][NextAuth]_vars

NextData ==
  \/ Tick
  \/ Budget /\ Restart
  \/ Budget /\ \E w \in WorkoutInputs : AddWorkout(w)
  \/ Budget /\ \E id \in IdsOf("workouts"), patch \in WorkoutPatches : UpdateWorkout(id, patch)
  \/ Budget /\ \E i \in DOMAIN appData.workouts : handleCompleteWorkout(appData.workouts[i])
  \/ Budget /\ \E id \in IdsOf("workouts") : DeleteWorkout(id)
  \/ Budget /\ \E meal \in MealInputs : LogMeal(meal)
  \/ Budget /\ \E id \in IdsOf("meals"), patch \in MealPatches : UpdateMeal(id, patch)
  \/ Budget /\ \E id \in IdsOf("meals") : DeleteMeal(id)
  \/ Budget /\ \E message \in MessageInputs : SendMessage(message)
  \/ Budget /\ \E id \in IdsOf("messages") : MarkMessageRead(id)
  \/ Budget /\ \E entry \in ProgressInputs : AddProgressEntry(entry)
  \/ Budget /\ \E id \in IdsOf("progress"), patch \in ProgressPatches :
                 UpdateProgressEntry(id, patch)
  \/ Budget /\ \E id \in IdsOf("progress") : DeleteProgressEntry(id)

SpecData == Init /\ [][NextData]_vars

\* The whole application: both providers, and a remote that may be down.
\* Each create handler gets one input that passes its schema.
AppPayloads == {RegPayload(NameGood, EmailUpper, PwGood, PwGood, <<>>, "client")}
AppLogins == {Credentials(ClientEmail, ClientPassword), Credentials(EmailUpper, PwGood)}
AppClients == {ClientData(NameGood, EmailLower, <<>>, PwGood)}
AppWorkouts == {[name |-> <<"W">>, exercises |-> <<PushUps>>, clientId |-> "client-1"]}
AppMeals ==
  {[name |-> <<"M">>, type |-> "lunch", calories |-> 500, protein |-> 30,
    carbs |-> 50, fat |-> 10, userId |-> "client-1"]}
AppMessages ==
  {[senderId |-> "client-1", receiverId |-> "trainer-1", content |-> <<"h","i">>]}
AppEntries == {[weight |-> 70, userId |-> "client-1"]}

NextApp ==
  \/ Tick
  \/ DbToggle
  \/ Budget /\ Restart
  \/ Budget /\ Logout
  \/ Budget /\ \E payload \in AppPayloads : Register(payload)
  \/ Budget /\ \E c \in AppLogins : Login(c)
  \/ Budget /\ \E id \in Ids(users) \cup {Ghost}, patch \in UserPatches : UpdateUser(id, patch)
  \/ Budget /\ \E clientData \in AppClients : CreateClient(clientData, "trainer-1")
  \/ Budget /\ \E id \in Ids(users) \cup {Ghost} : DeleteUser(id)
  \/ Budget /\ \E w \in AppWorkouts : AddWorkout(w)
  \/ Budget /\ \E id \in IdsOf("workouts"), patch \in WorkoutPatches : UpdateWorkout(id, patch)
  \/ Budget /\ \E id \in IdsOf("workouts") : DeleteWorkout(id)
  \/ Budget /\ \E meal \in AppMeals : LogMeal(meal)
  \/ Budget /\ \E id \in IdsOf("meals"), patch \in MealPatches : UpdateMeal(id, patch)
  \/ Budget /\ \E id \in IdsOf("meals") : DeleteMeal(id)
  \/ Budget /\ \E message \in AppMessages : SendMessage(message)
  \/ Budget /\ \E id \in IdsOf("messages") : MarkMessageRead(id)
  \/ Budget /\ \E entry \in AppEntries : AddProgressEntry(entry)
  \/ Budget /\ \E id \in IdsOf("progress"), patch \in ProgressPatches :
                 UpdateProgressEntry(id, patch)
  \/ Budget /\ \E id \in IdsOf("progress") : DeleteProgressEntry(id)

SpecApp == Init /\ [][NextApp]_vars

(***************************************************************************)
(* Calls that share a render.  register, login and createClient are        *)
(* closures of one render of AuthProvider: they read the `users` of that   *)
(* render (`seen`), while their state updates, being functional            *)
(* (setUsers((u) => ...)), apply to the state as it is (`cur`).  A caller   *)
(* that makes two calls in one handler, or awaits one and then makes the   *)
(* other, holds the closures of one render for both.                       *)
(***************************************************************************)
\* register(payload)
registerCall(seen, cur, payload, id) ==
  LET validation == validateData(userRegistrationSchema(payload)) IN
  IF ~validation.success
    THEN [err |-> validation.errors[1].message, ret |-> null, users |-> cur]
  ELSE IF EmailTaken(seen, payload.email)
    THEN [err |-> "Email already exists", ret |-> null, users |-> cur]
  ELSE LET user == RegisteredUser(id, payload, seen)
       IN [err |-> Ok, ret |-> user, users |-> <<user>> \o cur]

\* createClient(clientData, trainerId)
createClientCall(seen, cur, clientData, trainerId, id) ==
  LET validation == validateData(clientCreationSchema(clientData)) IN
  IF ~validation.success
    THEN [err |-> validation.errors[1].message, ret |-> null, users |-> cur]
  ELSE IF EmailTaken(seen, clientData.email)
    THEN [err |-> "Email already exists", ret |-> null, users |-> cur]
  ELSE LET client == ClientUser(id, clientData, trainerId)
       IN [err |-> Ok, ret |-> client,
           users |-> LinkClient(<<client>> \o cur, trainerId, client)]

\* login({email, password}); `session` is the option of the session it sets
loginCall(seen, cur, c, token, t) ==
  LET found == FindLogin(seen, c.email, c.password)
      user == found[1]
      failed(message) == [err |-> message, ret |-> null, users |-> cur, session |-> <<>>]
  IN IF c.email = <<>> \/ c.password = <<>> THEN failed("Email and password are required")
     ELSE IF found = <<>> THEN failed("Invalid credentials")
     ELSE IF ~user.isActive THEN failed("Account is deactivated")
     ELSE [err |-> Ok, ret |-> user,
           users |-> PatchUsers(cur, user.id, [lastLogin |-> ISOString(t)]),
           session |-> <<[userId |-> user.id, token |-> token]>>]

\* a caller registers and, when that succeeded, logs in with the same email
\* and password (auto-login); err is the error of the call that threw
RegisterThenLogin(payload) ==
  \E r1, r2 \in Rnd :
    LET reg == registerCall(users, users, payload, uid(now, r1))
        log == loginCall(users, reg.users, Credentials(payload.email, payload.password),
                         uid(now, r2), now)
    IN IF reg.err # Ok THEN
         /\ lastOp' = Op("registerThenLogin", payload, reg.err, null, "none")
         /\ UNCHANGED <<users, session, appData, store, now, tokens, usedIds>>
       ELSE
         /\ users' = log.users
         /\ session' = IF log.session = <<>> THEN session ELSE log.session[1]
         /\ tokens' = IF log.session = <<>> THEN tokens
                                            ELSE tokens \cup {log.session[1].token}
         /\ store' = IF log.session = <<>>
                       THEN save(store, "users", users')
                       ELSE save(save(store, "session", session'), "users", users')
         /\ usedIds' = [usedIds EXCEPT !.users = @ \cup {reg.ret.id}]
         /\ lastOp' = Op("registerThenLogin", payload, log.err, reg.ret, "createUser")
         /\ UNCHANGED <<appData, now>>

RegisterOf(payload) == [kind |-> "register", payload |-> payload]
CreateClientOf(clientData, trainerId) ==
  [kind |-> "createClient", clientData |-> clientData, trainerId |-> trainerId]

EmailOf(call) ==
  IF call.kind = "register" THEN call.payload.email ELSE call.clientData.email

\* a user-creation call: register or createClient
createCall(seen, cur, call, id) ==
  IF call.kind = "register"
    THEN registerCall(seen, cur, call.payload, id)
    ELSE createClientCall(seen, cur, call.clientData, call.trainerId, id)

\* two user-creation calls started with the closures of one render: the
\* second is started before the first one's user is in `users`
TwoCreations(a, b) ==
  \E r1, r2 \in Rnd :
    LET first == createCall(users, users, a, uid(now, r1))
        second == createCall(users, first.users, b, uid(now, r2))
        created == {x.ret.id : x \in {y \in {first, second} : y.err = Ok}}
    IN /\ users' = second.users
       /\ store' = IF created = {} THEN store ELSE save(store, "users", users')
       /\ usedIds' = [usedIds EXCEPT !.users = @ \cup created]
       /\ lastOp' = Op("twoCreations", <<a, b>>,
                       IF first.err # Ok THEN first.err ELSE second.err,
                       <<[err |-> first.err, ret |-> first.ret],
                         [err |-> second.err, ret |-> second.ret]>>,
                       IF created = {} THEN "none" ELSE "createUser")
       /\ UNCHANGED <<session, appData, now, tokens>>

CreationCalls ==
  {RegisterOf(RegPayload(NameGood, EmailLower, PwGood, PwGood, <<>>, "client")),
   RegisterOf(RegPayload(NameGood, EmailUpper, PwGood, PwGood, <<>>, "client")),
   RegisterOf(RegPayload(NameGood, TrainerEmail, PwGood, PwGood, <<>>, "client")),
   CreateClientOf(ClientData(NameGood, EmailLower, <<>>, PwGood), "trainer-1"),
   CreateClientOf(ClientData(NameGood, EmailBad, <<>>, PwGood), "trainer-1")}

NextChain ==
  \/ Tick
  \/ Budget /\ \E payload \in RegPayloads : RegisterThenLogin(payload)
  \/ Budget /\ \E a, b \in CreationCalls : TwoCreations(a, b)
  \/ Budget /\ \E c \in LoginInputs : Login(c)

SpecChain == Init /\ [][NextChain]_vars

(***************************************************************************)
(* StatsPage.                                                              *)
(***************************************************************************)
\* getUser(id): users.find((u) => u.id === id), as an option
getUser(us, id) ==
  IF \E i \in DOMAIN us : us[i].id = id
    THEN <<us[CHOOSE i \in DOMAIN us :
                us[i].id = id /\ \A j \in 1..(i - 1) : us[j].id # id]>>
    ELSE <<>>

\* x.f, which is undefined when x has no field f
Get(x, f) == IF f \in DOMAIN x THEN x[f] ELSE Undefined

\* the workouts that name the viewer as their trainer, whatever the role
userWorkoutsByTrainer(d, viewer) ==
  SelectSeq(d.workouts,
            LAMBDA w : Get(w, "trainerId") = IF viewer = <<>> THEN Undefined ELSE viewer[1].id)

\* userWorkouts: the workouts of the viewer, by trainerId for a trainer and
\* by clientId for anybody else; with no viewer, user?.id is undefined
userWorkouts(d, viewer) ==
  LET role == IF viewer = <<>> THEN Undefined ELSE viewer[1].role
      id == IF viewer = <<>> THEN Undefined ELSE viewer[1].id
  IN SelectSeq(d.workouts,
               LAMBDA w : IF role = "trainer" THEN Get(w, "trainerId") = id
                                              ELSE Get(w, "clientId") = id)

\* Math.round(n / d * 100) for 0 <= n <= d, d > 0: the nearest integer, a
\* half going up
RoundPercent(n, d) == (200 * n + d) \div (2 * d)

\* a rate that is 100 when there is nothing to complete
completionRateOfNone(total, done) == IF total > 0 THEN RoundPercent(done, total) ELSE 100

\* completionRate: userWorkouts.length > 0 ? Math.round(...) : 0
completionRate(total, done) == IF total > 0 THEN RoundPercent(done, total) ELSE 0

\* stats: the workout figures of StatsPage
stats(d, viewer) ==
  LET mine == userWorkouts(d, viewer)
      completedWorkouts == SelectSeq(mine, LAMBDA w : w.completed)
  IN [totalWorkouts |-> Len(mine),
      completedWorkouts |-> Len(completedWorkouts),
      completionRate |-> completionRate(Len(mine), Len(completedWorkouts))]

TopLen == 5

RECURSIVE exerciseNames(_)
\* the exercise names of the workouts, in forEach order
exerciseNames(workouts) ==
  IF workouts = <<>> THEN <<>>
  ELSE [i \in DOMAIN Head(workouts).exercises |-> Head(workouts).exercises[i].name]
         \o exerciseNames(Tail(workouts))

RECURSIVE exerciseCount(_)
\* Object.entries(exerciseCount): one [name, count] per name, in the order
\* the names were first inserted (a name that is a number, which an object
\* lists first, is not among the model's names)
exerciseCount(names) ==
  IF names = <<>> THEN <<>>
  ELSE LET before == exerciseCount(SubSeq(names, 1, Len(names) - 1))
           name == names[Len(names)]
       IN IF \E i \in DOMAIN before : before[i].name = name
            THEN [i \in DOMAIN before |->
                    IF before[i].name = name
                      THEN [before[i] EXCEPT !.count = @ + 1] ELSE before[i]]
            ELSE Append(before, [name |-> name, count |-> 1])

RECURSIVE SortByCount(_)
\* entries.sort(([,a], [,b]) => b - a): descending counts, the sort being
\* stable
SortByCount(entries) ==
  IF entries = <<>> THEN <<>>
  ELSE LET sorted == SortByCount(SubSeq(entries, 1, Len(entries) - 1))
           e == entries[Len(entries)]
           ahead == Cardinality({i \in DOMAIN sorted : sorted[i].count >= e.count})
       IN SubSeq(sorted, 1, ahead) \o <<e>> \o SubSeq(sorted, ahead + 1, Len(sorted))

\* .slice(0, n)
Slice(s, n) == SubSeq(s, 1, IF Len(s) < n THEN Len(s) ELSE n)

\* StatsPage.stats.topExercises
topExercises(d, viewer) ==
  Slice(SortByCount(exerciseCount(exerciseNames(userWorkouts(d, viewer)))), TopLen)

\* the viewer of a page: session ? getUser(session.userId) : null
Viewer == IF session = null THEN <<>> ELSE getUser(users, session.userId)

(***************************************************************************)
(* DashboardPage.                                                          *)
(***************************************************************************)
\* last7Days: the dates of today and of the six days before, oldest first.
\* The clock counts days here, as it does for ISODate; the code takes the
\* days off in local time and writes the date in UTC, which the model has
\* as one zone.
last7Days(t) == [k \in 1..7 |-> ISODate(t - (7 - k))]

RECURSIVE SumCalories(_)
\* meals.reduce((sum, meal) => sum + meal.calories, 0)
SumCalories(meals) ==
  IF meals = <<>> THEN 0 ELSE Head(meals).calories + SumCalories(Tail(meals))

\* Math.round(n / 100): the nearest integer, a half going up
RoundHundredth(n) == (n + 50) \div 100

\* weeklyStats: for each of last7Days, the number of the viewer's completed
\* workouts of that date and the scaled calories of the viewer's meals of
\* that date (the weekday label of the entry is left out)
weeklyStats(d, viewer, t) ==
  LET role == IF viewer = <<>> THEN Undefined ELSE viewer[1].role
      id == IF viewer = <<>> THEN Undefined ELSE viewer[1].id
      days == last7Days(t)
  IN [k \in DOMAIN days |->
        LET workouts == SelectSeq(d.workouts,
                          LAMBDA w : /\ w.date = days[k]
                                     /\ w.completed
                                     /\ IF role = "trainer" THEN Get(w, "trainerId") = id
                                                             ELSE Get(w, "clientId") = id)
            meals == SelectSeq(d.meals,
                       LAMBDA m : m.date = days[k] /\ Get(m, "userId") = id)
        IN [workouts |-> Len(workouts), calories |-> RoundHundredth(SumCalories(meals))]]

(***************************************************************************)
(* The scenario of a trainer's client: the trainer creates the client, the *)
(* client logs in, adds a workout of one exercise and completes it.        *)
(***************************************************************************)
\* a handler of the scenario runs
Step == ops' = ops + 1 /\ dbUp' = dbUp /\ UNCHANGED <<authState, calls>>

Trainers == {users[i].id : i \in {j \in DOMAIN users : users[j].role = "trainer"}}

\* ClientsPage.handleAddClient: createClient(newClient, user.id)
TraceCreateClient ==
  /\ session = null
  /\ Len(users) = Len(DefaultUsers)
  /\ Step
  /\ \E clientData \in {ClientData(NameGood, EmailUpper, <<>>, PwGood),
                         ClientData(NameGood, EmailLower, <<TrainerPhone>>, PwGood)},
        trainerId \in Trainers :
       CreateClient(clientData, trainerId)

\* LoginPage.handleSubmit: the new client logs in with the email as the
\* trainer typed it, or in lower case
TraceLogin ==
  /\ session = null
  /\ Len(users) > Len(DefaultUsers)
  /\ Step
  /\ \E email \in {users[1].email, EmailUpper} : Login(Credentials(email, users[1].password))

\* WorkoutsPage.handleSubmit of a client: addWorkout({..., clientId: user.id})
TraceAddWorkout ==
  /\ session # null
  /\ appData.workouts = <<>>
  /\ Step
  /\ \E extra \in {[clientId |-> session.userId],
                    [clientId |-> session.userId, trainerId |-> Undefined,
                     difficulty |-> "beginner"]} :
       AddWorkout(Spread([name |-> <<"W">>, exercises |-> <<PushUps>>], extra))

\* WorkoutsPage.handleCompleteWorkout: updateWorkout(id, {completed: !completed})
TraceComplete ==
  /\ session # null
  /\ appData.workouts # <<>>
  /\ ~appData.workouts[1].completed
  /\ Step
  /\ UpdateWorkout(appData.workouts[1].id, [completed |-> ~appData.workouts[1].completed])

NextTrace ==
  \/ Tick
  \/ DbToggle
  \/ TraceCreateClient
  \/ TraceLogin
  \/ TraceAddWorkout
  \/ TraceComplete

SpecTrace == Init /\ [][NextTrace]_vars

\* the text under a key is overwritten from outside the application
Tamper(k) ==
  /\ store' = [store EXCEPT ![k] = Garbage]
  /\ lastOp' = Op("tamper", k, Ok, null, "none")
  /\ UNCHANGED <<users, session, appData, now, tokens, usedIds, ops, dbUp,
                 authState, calls>>

\* the page is loaded again at any moment
Reload == Restart /\ UNCHANGED <<ops, dbUp, authState, calls>>

\* The application across reloads of the page.
NextReload ==
  \/ Tick
  \/ Reload
  \/ \E k \in DOMAIN store : Tamper(k)
  \/ Budget /\ Logout
  \/ Budget /\ \E payload \in AppPayloads : Register(payload)
  \/ Budget /\ \E c \in AppLogins : Login(c)
  \/ Budget /\ \E id \in Ids(users) : DeleteUser(id)
  \/ Budget /\ \E w \in AppWorkouts : AddWorkout(w)

SpecReload == Init /\ [][NextReload]_vars

(***************************************************************************)
(* The useAuth hook (hooks/useAuth.ts).  A call runs to its first await in *)
(* one step and goes on, in a step of its own, when the awaited call of    *)
(* the remote identity client settles.  The error of authState is absent   *)
(* (<<>>) or <<message>>.                                                  *)
(***************************************************************************)
\* setError: setAuthState(prev => ({ ...prev, error }))
setError(s, error) == [s EXCEPT !.error = error]

\* a setLoading that does nothing
setLoadingNever(s, loading) == s

\* setLoading: setAuthState(prev => ({ ...prev, loading }))
setLoading(s, loading) == [s EXCEPT !.loading = loading]

\* setUser: setAuthState(prev => ({ ...prev, user, loading: false }))
setUser(s, user) == [s EXCEPT !.user = user, !.loading = FALSE]

\* what the remote identity client resolves with: a uid, and an email and
\* a display name that may be null
RemoteUsers ==
  {[uid |-> "f-1", email |-> <<>>, displayName |-> <<>>],
   [uid |-> "f-1", email |-> <<EmailLower>>, displayName |-> <<NameGood>>]}

\* what an awaited call throws: an Error with a message, or something else
Thrown == {<<"auth/network-request-failed">>, <<>>}

\* error instanceof Error ? error.message : fallback
errorMessage(thrown, fallback) == IF thrown # <<>> THEN thrown[1] ELSE fallback

\* a || b for an optional text a
OrElse(a, b) == IF a # <<>> /\ a[1] # <<>> THEN a[1] ELSE b

\* the user signIn builds from the remote's answer
signInUser(result, email) ==
  [id |-> result.uid, email |-> OrElse(result.email, email),
   name |-> OrElse(result.displayName, <<"U","s","e","r">>), role |-> "client",
   isActive |-> TRUE, dateJoined |-> ISOString(now), lastLogin |-> ISOString(now)]

\* the user signUp builds from its data
signUpUser(result, userData) ==
  [id |-> result.uid, email |-> userData.email, name |-> userData.name,
   role |-> userData.role, phone |-> userData.phone,
   isActive |-> TRUE, dateJoined |-> ISOString(now), lastLogin |-> ISOString(now)]

\* a call of the hook: its kind and argument, the await it stands at, the
\* methods of the remote client it has invoked, and how its promise ended
HookCall(kind, arg, stage, invoked, outcome) ==
  [kind |-> kind, arg |-> arg, stage |-> stage, invoked |-> invoked, outcome |-> outcome]

Pending == "pending"

HookFrame ==
  UNCHANGED <<users, session, appData, store, now, tokens, usedIds, lastOp, ops, dbUp>>

\* signIn(email, password) up to its await of firebaseAuth.signIn
signIn(c) ==
  /\ Len(calls) < MaxOps
  /\ authState' = setError(setLoading(authState, TRUE), <<>>)
  /\ calls' = Append(calls, HookCall("signIn", c, "signIn", <<"signIn">>, Pending))
  /\ HookFrame

\* signUp(userData): refused by the schema in the same run, or up to its
\* await of firebaseAuth.signUp
signUp(userData) ==
  LET validation == validateData(userRegistrationSchema(userData))
      started == setError(setLoading(authState, TRUE), <<>>)
  IN
  /\ Len(calls) < MaxOps
  /\ IF ~validation.success
       THEN /\ authState' = setLoading(setError(started, <<validation.errors[1].message>>),
                                       FALSE)
            /\ calls' = Append(calls, HookCall("signUp", userData, "done", <<>>, "rejected"))
       ELSE /\ authState' = started
            /\ calls' = Append(calls, HookCall("signUp", userData, "signUp",
                                               <<"signUp">>, Pending))
  /\ HookFrame

\* signOut() up to its await of firebaseAuth.signOut
signOut ==
  /\ Len(calls) < MaxOps
  /\ authState' = setLoading(authState, TRUE)
  /\ calls' = Append(calls, HookCall("signOut", <<>>, "signOut", <<"signOut">>, Pending))
  /\ HookFrame

Finish(k, outcome) == calls' = [calls EXCEPT ![k].stage = "done", ![k].outcome = outcome]

\* the call awaited by call k resolves, and the call runs on
Resolves(k) ==
  /\ k \in DOMAIN calls
  /\ calls[k].outcome = Pending
  /\ CASE calls[k].stage = "signIn" ->
            \E result \in RemoteUsers :
              /\ authState' = setLoading(setUser(authState,
                                                 signInUser(result, calls[k].arg.email)), FALSE)
              /\ Finish(k, "resolved")
       [] calls[k].stage = "signUp" ->
            /\ authState' = authState
            /\ calls' = [calls EXCEPT ![k].stage = "setCustomClaims",
                                      ![k].invoked = Append(@, "setCustomClaims")]
       [] calls[k].stage = "setCustomClaims" ->
            \E result \in RemoteUsers :
              /\ authState' = setLoading(setUser(authState,
                                                 signUpUser(result, calls[k].arg)), FALSE)
              /\ Finish(k, "resolved")
       [] calls[k].stage = "signOut" ->
            /\ authState' = setLoading(setUser(authState, null), FALSE)
            /\ Finish(k, "resolved")
  /\ HookFrame

\* the call awaited by call k rejects: the catch block sets the error, and
\* signIn and signUp throw it on while signOut does not
Rejects(k) ==
  /\ k \in DOMAIN calls
  /\ calls[k].outcome = Pending
  /\ \E thrown \in Thrown :
       LET fallback == CASE calls[k].kind = "signIn" -> "Sign in failed"
                         [] calls[k].kind = "signUp" -> "Sign up failed"
                         [] calls[k].kind = "signOut" -> "Sign out failed"
       IN authState' = setLoading(setError(authState, <<errorMessage(thrown, fallback)>>),
                                  FALSE)
  /\ Finish(k, IF calls[k].kind = "signOut" THEN "resolved" ELSE "rejected")
  /\ HookFrame

\* the awaited call of call k settles
Settles(k) == Resolves(k) \/ Rejects(k)

\* the listener of onAuthStateChanged is told the signed-in user, or that
\* there is none; a user whose claims cannot be fetched is taken as none
onAuthStateChanged ==
  /\ \/ \E firebaseUser \in RemoteUsers, role \in {<<>>, <<"trainer">>} :
          authState' = setUser(authState,
            [id |-> firebaseUser.uid, email |-> OrElse(firebaseUser.email, <<>>),
             name |-> OrElse(firebaseUser.displayName, <<"U","s","e","r">>),
             role |-> IF role # <<>> THEN role[1] ELSE "client",
             isActive |-> TRUE, dateJoined |-> ISOString(now),
             lastLogin |-> ISOString(now)])
     \/ authState' = setUser(authState, null)
  /\ UNCHANGED calls
  /\ HookFrame

\* the data given to signUp: one that the schema accepts, one with a short
\* name, one with a bad email, a weak password and a bad phone
HookPayloads ==
  {RegPayload(NameGood, EmailLower, PwGood, PwGood, <<TrainerPhone>>, "trainer"),
   RegPayload(NameShort, EmailLower, PwGood, PwGood, <<>>, "client"),
   RegPayload(NameGood, EmailBad, PwWeak, PwWeak, <<PhoneBad>>, "client")}

HookLogins == {Credentials(ClientEmail, ClientPassword)}

NextHook ==
  \/ \E c \in HookLogins : signIn(c)
  \/ \E userData \in HookPayloads : signUp(userData)
  \/ signOut
  \/ \E k \in 1..MaxOps : Resolves(k)
  \/ \E k \in 1..MaxOps : Rejects(k)
  \/ onAuthStateChanged

\* An awaited call of the remote identity client settles, and the event loop
\* then runs the call that awaited it.
SpecHook ==
  Init /\ [][NextHook]_vars /\ \A k \in 1..MaxOps : WF_vars(Settles(k))

\* The users and the messages between them: accounts are made and deleted
\* while messages are sent.
NextChat ==
  \/ Tick
  \/ Budget /\ \E payload \in RegPayloads : Register(payload)
  \/ Budget /\ \E clientData \in ClientDatas, trainerId \in Ids(users) \cup {Ghost} :
                 CreateClient(clientData, trainerId)
  \/ Budget /\ \E id \in Ids(users) \cup {Ghost} : DeleteUser(id)
  \/ Budget /\ \E message \in MessageInputs : SendMessage(message)

SpecChat == Init /\ [][NextChat]_vars

(***************************************************************************)
(* The helper functions of utils/validation.ts, applied to inputs of a     *)
(* bounded size.  Each call is one step that records its input and result. *)
(***************************************************************************)
MaxLen == 3      \* the built texts have at most MaxLen characters

StrongLen == 12

\* the texts over an alphabet, of at most n characters
Texts(alphabet, n) == UNION {[1..k -> alphabet] : k \in 0..n}

RECURSIVE Repeat(_, _)
Repeat(s, n) == IF n = 0 THEN <<>> ELSE s \o Repeat(s, n - 1)

\* the passwords scored: "abc", "Abcdefg1!", "Abcdefg1!abc", and every built
\* text written once and four times
Passwords ==
  {PwWeak, PwGood, PwGood \o PwWeak}
    \cup {Repeat(s, n) : s \in Texts({"a", "A", "1", "!"}, MaxLen), n \in {1, 4}}

SanitizeInputs == Texts({" ", "<", ">", "a"}, MaxLen)

\* registration payloads: every combination of a good and a bad value of
\* each field, the role included
FormPayloads ==
  {RegPayload(n, e, p, c, ph, r) :
     n \in {NameGood, NameShort}, e \in {EmailLower, EmailBad},
     p \in {PwGood, PwWeak}, c \in {PwGood, PwWeak},
     ph \in {<<>>, <<PhoneBad>>}, r \in {"client", "trainer", "admin"}}

\* getPasswordStrength without the point for 12 characters
getPasswordStrengthNoBonus(password) ==
  LET Point(met) == IF met THEN 1 ELSE 0
      Tip(met, tip) == IF met THEN <<>> ELSE <<tip>>
  IN [score |->   Point(Len(password) >= PasswordMinLen)
                + Point(Some(password, IsUpper))
                + Point(Some(password, IsLower))
                + Point(Some(password, IsDigit))
                + Point(Some(password, IsSpecial)),
      feedback |->    Tip(Len(password) >= PasswordMinLen, "Use at least 8 characters")
                   \o Tip(Some(password, IsUpper), "Add uppercase letters")
                   \o Tip(Some(password, IsLower), "Add lowercase letters")
                   \o Tip(Some(password, IsDigit), "Add numbers")
                   \o Tip(Some(password, IsSpecial), "Add special characters")]

\* getPasswordStrength: one point per test passed, one tip per test failed
\* among the first five, in the order of the tests
getPasswordStrength(password) ==
  LET Point(met) == IF met THEN 1 ELSE 0
      Tip(met, tip) == IF met THEN <<>> ELSE <<tip>>
  IN [score |->   Point(Len(password) >= PasswordMinLen)
                + Point(Some(password, IsUpper))
                + Point(Some(password, IsLower))
                + Point(Some(password, IsDigit))
                + Point(Some(password, IsSpecial))
                + Point(Len(password) >= StrongLen),
      feedback |->    Tip(Len(password) >= PasswordMinLen, "Use at least 8 characters")
                   \o Tip(Some(password, IsUpper), "Add uppercase letters")
                   \o Tip(Some(password, IsLower), "Add lowercase letters")
                   \o Tip(Some(password, IsDigit), "Add numbers")
                   \o Tip(Some(password, IsSpecial), "Add special characters")]

\* a call of a pure function changes nothing but the record of the call
Pure ==
  UNCHANGED <<users, session, appData, store, now, tokens, usedIds, ops, dbUp,
              authState, calls>>

GetPasswordStrength ==
  /\ \E password \in Passwords :
       lastOp' = Op("getPasswordStrength", password, Ok, getPasswordStrength(password), "none")
  /\ Pure

ValidateRegistration ==
  /\ \E payload \in FormPayloads :
       lastOp' = Op("validateData", payload, Ok,
                    validateData(userRegistrationSchema(payload)), "none")
  /\ Pure

Sanitize ==
  /\ \E input \in SanitizeInputs :
       lastOp' = Op("sanitizeString", input, Ok, SanitizeString(input), "none")
  /\ Pure

NextUtil ==
  \/ GetPasswordStrength
  \/ ValidateRegistration
  \/ Sanitize

SpecUtil == Init /\ [][NextUtil]_vars

(***************************************************************************)
(* Claims about the AuthProvider, checked under SpecAuth.                  *)
(***************************************************************************)
Range(seq) == {seq[i] : i \in DOMAIN seq}

\* C1: no two users in the users collection have emails that are equal when
\* compared case-insensitively.
C1_EmailsUniqueIgnoringCase ==
  \A i, j \in DOMAIN users :
    i # j => ToLowerCase(users[i].email) # ToLowerCase(users[j].email)

\* the email is used by no user, whatever the letter case
EmailUnused(us, email) ==
  \A i \in DOMAIN us : ToLowerCase(us[i].email) # ToLowerCase(email)

\* C2: a register call whose payload passes validation and whose email is
\* not yet used succeeds, puts exactly one user (the returned one) in front
\* of the users collection, the returned user's email is the lower-cased
\* input email and its role the input role, and the session is untouched.
C2_RegisterSucceeds ==
  [][(/\ lastOp'.op = "register"
      /\ userRegistrationSchema(lastOp'.arg) = <<>>
      /\ EmailUnused(users, lastOp'.arg.email))
     => (/\ lastOp'.err = Ok
         /\ users' = <<lastOp'.ret>> \o users
         /\ lastOp'.ret.email = ToLowerCase(lastOp'.arg.email)
         /\ lastOp'.ret.role = lastOp'.arg.role
         /\ session' = session)]_vars

\* C2 witness: a register of "A@B.com" succeeded while nobody was logged in
C2_Witness ==
  /\ lastOp.op = "register" /\ lastOp.err = Ok
  /\ lastOp.arg.email = EmailUpper
  /\ users[1].email = EmailLower
  /\ session = null

\* C3: a register or createClient call whose input fails validation, or
\* whose email some user already has, ends in an error; and a call that ends
\* in an error leaves users, session and the persisted `users` unchanged.
C3_FailureChangesNothing ==
  [][(lastOp'.op \in {"register", "createClient"})
     => LET input == IF lastOp'.op = "register" THEN lastOp'.arg
                     ELSE lastOp'.arg.clientData
            issues == IF lastOp'.op = "register"
                        THEN userRegistrationSchema(input)
                        ELSE clientCreationSchema(input)
            exists == \E i \in DOMAIN users : users[i].email = input.email
        IN /\ (issues # <<>> \/ exists) => lastOp'.err # Ok
           /\ lastOp'.err # Ok =>
                /\ users' = users
                /\ session' = session
                /\ store'.users = store.users
                /\ lastOp'.ret = null]_vars

\* C3 witness: a createClient was refused for an existing email
C3_Witness ==
  /\ lastOp.op = "createClient"
  /\ lastOp.err = "Email already exists"
  /\ Len(users) = 2

\* what login does with credentials c in a state with users us
LoginCase(us, c) ==
  LET hits == {i \in DOMAIN us : /\ ToLowerCase(us[i].email) = ToLowerCase(c.email)
                                 /\ us[i].password = c.password}
      first == CHOOSE i \in hits : \A j \in hits : i <= j
  IN IF hits = {} THEN "Invalid credentials"
     ELSE IF ~us[first].isActive THEN "Account is deactivated"
     ELSE Ok

\* C4 as stated: login fails with InvalidCredentials when no user matches
\* both email and password and with AccountDeactivated when the matched user
\* is not active; a failed login leaves the session unchanged.
C4_Original ==
  [][(lastOp'.op = "login")
     => /\ lastOp'.err = LoginCase(users, lastOp'.arg)
        /\ lastOp'.err # Ok => session' = session]_vars

\* C4 amended: login fails with "Email and password are required" when
\* either is empty; otherwise as stated.
C4_LoginFailures ==
  [][(lastOp'.op = "login")
     => /\ lastOp'.err =
             IF lastOp'.arg.email = <<>> \/ lastOp'.arg.password = <<>>
               THEN "Email and password are required"
               ELSE LoginCase(users, lastOp'.arg)
        /\ lastOp'.err # Ok => session' = session /\ users' = users]_vars

\* C4 witness: a login was refused because the account is deactivated
C4_Witness ==
  /\ lastOp.op = "login"
  /\ lastOp.err = "Account is deactivated"
  /\ \E i \in DOMAIN users : ~users[i].isActive

\* C5: a successful login makes the session {userId, token} with the id of
\* the first user that matches, a token that no earlier session held, and
\* stamps lastLogin on that user and changes no other user.
C5_LoginSuccess ==
  [][(lastOp'.op = "login" /\ lastOp'.err = Ok)
     => LET hits == {i \in DOMAIN users :
                       /\ ToLowerCase(users[i].email) = ToLowerCase(lastOp'.arg.email)
                       /\ users[i].password = lastOp'.arg.password}
            first == CHOOSE i \in hits : \A j \in hits : i <= j
        IN /\ session' # null
           /\ session'.userId = users[first].id
           /\ session'.token \notin tokens
           /\ DOMAIN users' = DOMAIN users
           /\ users'[first].lastLogin # Undefined
           /\ \A i \in DOMAIN users : i # first => users'[i] = users[i]]_vars

\* C6: logout leaves the session Anonymous, and the store then holds no
\* session under `session`: the key is missing or holds null.
C6_LogoutClearsSession ==
  [][(lastOp'.op = "logout")
     => /\ session' = null
        /\ store'.session \in {Absent, Stringify(null)}
        /\ load(store', "session", null) = null]_vars

\* C6 witness: a logout ended an Authenticated session
C6_Witness ==
  /\ lastOp.op = "logout"
  /\ tokens # {}
  /\ session = null

\* C7: after createClient(data, trainerId) the new client is in the users
\* collection iff it is in the clients list of the user with id trainerId.
C7_CreateClientBothOrNeither ==
  [][(lastOp'.op = "createClient")
     => LET client == lastOp'.ret
            created == client \in Range(users')
            linked == \E i \in DOMAIN users' :
                        /\ users'[i].id = lastOp'.arg.trainerId
                        /\ client \in Range(users'[i].clients)
        IN created <=> linked]_vars

\* C8: every user whose trainerId is set references an existing user with
\* role trainer.
C8_TrainerIdReferencesTrainer ==
  \A i \in DOMAIN users :
    users[i].trainerId # Undefined
      => \E j \in DOMAIN users :
           users[j].id = users[i].trainerId /\ users[j].role = "trainer"

(***************************************************************************)
(* Claims about the DataProvider, checked under SpecData.                  *)
(***************************************************************************)
\* the issues of the schema that gates a create handler
IssuesOf(op, arg) ==
  CASE op = "addWorkout" -> workoutSchema(arg)
    [] op = "logMeal" -> mealSchema(arg)
    [] op = "sendMessage" -> messageSchema(arg)
    [] op = "addProgressEntry" -> progressSchema(arg)

\* C9: when the input of addWorkout, logMeal, sendMessage or addProgressEntry
\* fails its schema, the call ends in the first issue's error, no collection
\* and no stored value changes, nothing is returned and no db call is made.
C9_InvalidCreateAborts ==
  [][(/\ lastOp'.op \in {"addWorkout", "logMeal", "sendMessage", "addProgressEntry"}
      /\ IssuesOf(lastOp'.op, lastOp'.arg) # <<>>)
     => (/\ lastOp'.err = IssuesOf(lastOp'.op, lastOp'.arg)[1].message
         /\ appData' = appData
         /\ users' = users
         /\ store' = store
         /\ lastOp'.ret = null
         /\ lastOp'.db = "none")]_vars

\* C9 witness: a workout with zero exercises was refused
C9_Witness ==
  /\ lastOp.op = "addWorkout"
  /\ lastOp.arg.exercises = <<>>
  /\ lastOp.err = "At least one exercise is required"
  /\ appData.workouts = <<>>

NoSharedId(seq) == \A i, j \in DOMAIN seq : i # j => seq[i].id # seq[j].id

\* the collection a create handler adds to
CollectionOf(op) ==
  CASE op \in {"register", "createClient"} -> "users"
    [] op = "addWorkout" -> "workouts"
    [] op = "logMeal" -> "meals"
    [] op = "sendMessage" -> "messages"
    [] op = "addProgressEntry" -> "progress"

\* C10: no two entities of a collection share an id, and a newly created
\* entity gets an id that no entity of its collection has or has had.
C10_IdsUniqueNeverReused ==
  [][/\ NoSharedId(users')
     /\ \A coll \in DOMAIN appData' : NoSharedId(appData'[coll])
     /\ (/\ lastOp'.op \in {"register", "createClient", "addWorkout", "logMeal",
                            "sendMessage", "addProgressEntry"}
         /\ lastOp'.err = Ok)
        => lastOp'.ret.id \notin usedIds[CollectionOf(lastOp'.op)]]_vars

(***************************************************************************)
(* Claims about the whole application, checked under SpecApp.              *)
(***************************************************************************)
UpdateOps == {"updateUser", "updateWorkout", "updateMeal", "updateProgressEntry",
              "markMessageRead"}
DeleteOps == {"deleteUser", "deleteWorkout", "deleteMeal", "deleteProgressEntry"}

\* the collection an update or delete handler works on
TargetOf(op) ==
  CASE op \in {"updateUser", "deleteUser"} -> "users"
    [] op \in {"updateWorkout", "deleteWorkout"} -> "workouts"
    [] op \in {"updateMeal", "deleteMeal"} -> "meals"
    [] op \in {"updateProgressEntry", "deleteProgressEntry"} -> "progress"
    [] op = "markMessageRead" -> "messages"

\* the id an update or delete handler was given
GivenId(o) ==
  IF o.op \in DeleteOps \cup {"markMessageRead"} THEN o.arg ELSE o.arg.id

\* the five collections of the in-memory state
Snapshot(us, d) ==
  [users |-> us, workouts |-> d.workouts, meals |-> d.meals,
   messages |-> d.messages, progress |-> d.progress]

\* C11: an update or delete by id raises no error, leaves every other
\* collection unchanged and every entity whose id differs from the given id
\* unchanged and in place (a delete keeps exactly those entities, in order);
\* when no entity has the id, the whole snapshot is unchanged.
C11_UpdateDeleteFrame ==
  [][(lastOp'.op \in UpdateOps \cup DeleteOps)
     => LET coll == TargetOf(lastOp'.op)
            id == GivenId(lastOp')
            before == Snapshot(users, appData)
            after == Snapshot(users', appData')
        IN /\ lastOp'.err = Ok
           /\ \A c \in DOMAIN before \ {coll} : after[c] = before[c]
           /\ IF lastOp'.op \in DeleteOps
                THEN after[coll] = SelectSeq(before[coll], LAMBDA x : x.id # id)
                ELSE /\ Len(after[coll]) = Len(before[coll])
                     /\ \A i \in DOMAIN before[coll] :
                          before[coll][i].id # id => after[coll][i] = before[coll][i]
           /\ id \notin Ids(before[coll]) => after = before]_vars

\* C11 witness: updateWorkout was given an id that no workout has, while
\* there is a workout
C11_Witness ==
  /\ lastOp.op = "updateWorkout"
  /\ lastOp.arg.id = Ghost
  /\ appData.workouts # <<>>

PatchOps == {"updateUser", "updateWorkout", "updateMeal", "updateProgressEntry"}

\* every entity that had the given id is the old entity with `patch` spread
\* over it: the patch's fields take the patch's values, the others stay
PatchedBy(patch(_)) ==
  LET coll == TargetOf(lastOp'.op)
      id == GivenId(lastOp')
      before == Snapshot(users, appData)[coll]
      after == Snapshot(users', appData')[coll]
  IN /\ Len(after) = Len(before)
     /\ \A i \in DOMAIN before :
          before[i].id = id =>
            LET p == patch(lastOp')
            IN /\ DOMAIN after[i] = DOMAIN before[i] \cup DOMAIN p
               /\ \A f \in DOMAIN p : after[i][f] = p[f]
               /\ \A f \in DOMAIN before[i] \ DOMAIN p : after[i][f] = before[i][f]

\* C12 as stated: update(id, patch) on an existing entity gives every field
\* of the patch the patch's value and keeps every other field.
C12_Original ==
  [][(lastOp'.op \in PatchOps) => PatchedBy(LAMBDA o : o.arg.patch)]_vars

\* C12 amended: as stated for updateUser, updateMeal and updateProgressEntry;
\* updateWorkout also sets updatedAt to the current time, whatever the patch
\* says about it, and is a partial patch for every other field.
C12_PartialPatch ==
  [][(lastOp'.op \in PatchOps)
     => PatchedBy(LAMBDA o : IF o.op = "updateWorkout"
                               THEN Spread(o.arg.patch, [updatedAt |-> ISOString(now)])
                               ELSE o.arg.patch)]_vars

\* C12 witness: updateWorkout marked a workout completed at a later time
\* than the workout was created
C12_Witness ==
  /\ lastOp.op = "updateWorkout"
  /\ lastOp.arg.patch = [completed |-> TRUE]
  /\ \E i \in DOMAIN appData.workouts :
       /\ appData.workouts[i].id = lastOp.arg.id
       /\ appData.workouts[i].completed
       /\ appData.workouts[i].updatedAt # appData.workouts[i].createdAt

\* C13: deleteUser(id) removes the users with that id and nothing else: the
\* workouts, meals, messages and progress entries, those that refer to the
\* user included, stay as they are in memory and in the store.
C13_DeleteUserNoCascade ==
  [][(lastOp'.op = "deleteUser")
     => /\ users' = SelectSeq(users, LAMBDA x : x.id # lastOp'.arg)
        /\ appData' = appData
        /\ store'.data = store.data]_vars

\* C13 witness: a user was deleted, and an entity that refers to the user is
\* still there
C13_Witness ==
  /\ lastOp.op = "deleteUser"
  /\ lastOp.arg \notin Ids(users)
  /\ \E c \in DOMAIN appData : \E i \in DOMAIN appData[c] :
       Refers(appData[c][i], lastOp.arg)

\* C14: once a handler and its persistence effects have run, each of users,
\* session and the data collections that the handler changed is stored whole
\* under its key, and what load reads back under `users`, `session` and
\* `data` is the in-memory users, session and data.
C14_StoreMirrorsMemory ==
  [][/\ users' # users => store'.users = Stringify(users')
     /\ session' # session => store'.session = Stringify(session')
     /\ appData' # appData => store'.data = Stringify(appData')
     /\ load(store', "users", <<>>) = users'
     /\ load(store', "session", null) = session'
     /\ load(store', "data", EmptyData) = appData']_vars

\* C14 witness: a login changed the session and the users, a workout had
\* been added before, and the store holds all three as they are in memory
C14_Witness ==
  /\ lastOp.op = "login" /\ lastOp.err = Ok
  /\ session # null
  /\ appData.workouts # <<>>
  /\ store.users = Stringify(users)
  /\ store.session = Stringify(session)
  /\ store.data = Stringify(appData)

CreateOps == {"register", "createClient", "addWorkout", "logMeal", "sendMessage",
              "addProgressEntry"}

\* the in-memory change of the handler that lastOp' records is in the next
\* state: a created entity heads its collection, an update's patch is on the
\* entities with the given id, a delete's id is on no entity
ChangeIsThere ==
  LET o == lastOp'
      coll == IF o.op \in CreateOps THEN CollectionOf(o.op) ELSE TargetOf(o.op)
      before == Snapshot(users, appData)[coll]
      after == Snapshot(users', appData')[coll]
  IN CASE o.op \in CreateOps ->
            /\ Len(after) = Len(before) + 1
            /\ after[1] = o.ret
       [] o.op \in DeleteOps ->
            after = SelectSeq(before, LAMBDA x : x.id # o.arg)
       [] o.op = "markMessageRead" ->
            /\ Len(after) = Len(before)
            /\ \A i \in DOMAIN before : before[i].id = o.arg => after[i].read
       [] o.op \in PatchOps ->
            /\ Len(after) = Len(before)
            /\ \A i \in DOMAIN before :
                 before[i].id = o.arg.id =>
                   \A f \in DOMAIN o.arg.patch : after[i][f] = o.arg.patch[f]

\* C15: when the db call of a mutator fails, the mutator still ends without
\* an error (a create returns its entity), its in-memory change is in the
\* state and in the store, and the call was made once.
C15_DbFailureIsIgnored ==
  [][lastOp'.caught
     => /\ lastOp'.err = Ok
        /\ lastOp'.op \in CreateOps => lastOp'.ret # null
        /\ ChangeIsThere
        /\ store'.users = Stringify(users')
        /\ store'.data = Stringify(appData')
        /\ lastOp'.attempts = 1]_vars

\* C15 witness: addWorkout ran while the remote was down, and its workout
\* is in the collection
C15_Witness ==
  /\ lastOp.op = "addWorkout"
  /\ lastOp.caught
  /\ ~dbUp
  /\ appData.workouts # <<>>
  /\ appData.workouts[1] = lastOp.ret

(***************************************************************************)
(* Claims about the scenario, checked under SpecTrace.                     *)
(***************************************************************************)
\* C16: in the scenario, once the client that the trainer created has logged
\* in, added a workout of its own with the one exercise Push-ups 3 x 10 and
\* updateWorkout has marked it completed, the statistics of the client as
\* viewer report completedWorkouts = 1 and completionRate = 100.
C16_ScenarioStats ==
  (/\ lastOp.op = "updateWorkout"
   /\ lastOp.arg.patch = [completed |-> TRUE])
  => /\ Viewer # <<>>
     /\ Viewer[1].role = "client"
     /\ Viewer[1].trainerId \in Trainers
     /\ Len(appData.workouts) = 1
     /\ appData.workouts[1].clientId = Viewer[1].id
     /\ Len(appData.workouts[1].exercises) = 1
     /\ appData.workouts[1].exercises[1].name = <<"P","u","s","h","-","u","p","s">>
     /\ appData.workouts[1].exercises[1].sets = 3
     /\ appData.workouts[1].exercises[1].reps = 10
     /\ stats(appData, Viewer).completedWorkouts = 1
     /\ stats(appData, Viewer).completionRate = 100

\* C16 witness: the scenario has run to its end
C16_Witness ==
  /\ lastOp.op = "updateWorkout"
  /\ ops = 4
  /\ session # null
  /\ session.userId = users[1].id
  /\ users[1].id \in Ids(users[2].clients)
  /\ appData.workouts[1].completed

(***************************************************************************)
(* Claims about calls that share a render, checked under SpecChain.        *)
(***************************************************************************)
\* C17: of two user-creation calls (register or createClient) that carry
\* the same email, the second one included when it is started before the
\* first one's user is in `users`, at most one passes the uniqueness check
\* and inserts its user.
C17_SameEmailCreatedOnce ==
  [][(/\ lastOp'.op = "twoCreations"
      /\ EmailOf(lastOp'.arg[1]) = EmailOf(lastOp'.arg[2]))
     => ~(lastOp'.ret[1].err = Ok /\ lastOp'.ret[2].err = Ok)]_vars

\* C18: when register(payload) succeeds, the login with the same email and
\* password that the same caller chains to it succeeds and makes the
\* session Authenticated as the registered user.
C18_ChainedLoginSucceeds ==
  [][(lastOp'.op = "registerThenLogin" /\ lastOp'.ret # null)
     => /\ lastOp'.err = Ok
        /\ session' # null
        /\ session'.userId = lastOp'.ret.id]_vars

(***************************************************************************)
(* Claims about the pages' figures, checked under SpecData.                *)
(***************************************************************************)
\* the viewers of a page: nobody, or one of the users
Viewers == {<<>>} \cup {<<users[i]>> : i \in DOMAIN users}

Abs(n) == IF n < 0 THEN -n ELSE n

C20_WeeklyActivity ==
  \A v \in Viewers :
    LET ws == weeklyStats(appData, v, now)
        days == last7Days(now)
        id == IF v = <<>> THEN Undefined ELSE v[1].id
        owns(w) == IF v # <<>> /\ v[1].role = "trainer"
                     THEN Get(w, "trainerId") = id
                     ELSE Get(w, "clientId") = id
    IN /\ Len(ws) = 7
       /\ Len(days) = 7
       /\ days[7] = ISODate(now)
       /\ \A j, k \in DOMAIN days : j # k => days[j] # days[k]
       /\ \A k \in DOMAIN days : days[k] = ISODate(now - (7 - k))
       /\ \A k \in DOMAIN ws :
            /\ ws[k].workouts =
                 Cardinality({i \in DOMAIN appData.workouts :
                                /\ appData.workouts[i].date = days[k]
                                /\ appData.workouts[i].completed
                                /\ owns(appData.workouts[i])})
            /\ ws[k].calories =
                 SumCalories(SelectSeq(appData.meals,
                               LAMBDA m : m.date = days[k] /\ Get(m, "userId") = id))

(***************************************************************************)
(* Claims about the helper functions, checked under SpecUtil.              *)
(***************************************************************************)
PasswordTests(password) ==
  <<Len(password) >= PasswordMinLen,
    \E i \in DOMAIN password : password[i] \in Range(Uppercase),
    \E i \in DOMAIN password : password[i] \in Range(Lowercase),
    \E i \in DOMAIN password : password[i] \in Digits,
    \E i \in DOMAIN password :
       password[i] \notin Range(Uppercase) \cup Range(Lowercase) \cup Digits,
    Len(password) >= StrongLen>>

PasswordTips ==
  <<"Use at least 8 characters", "Add uppercase letters", "Add lowercase letters",
    "Add numbers", "Add special characters">>

\* C21: getPasswordStrength returns a score in 0..6 that is the number of
\* tests the password passes (8 characters, an uppercase letter, a lowercase
\* letter, a digit, a special character, 12 characters) and a feedback that
\* holds exactly one tip for each of the first five tests the password
\* fails and nothing else; "abc" scores 1 with 4 tips, "Abcdefg1!" scores 5.
C21_PasswordStrength ==
  lastOp.op = "getPasswordStrength" =>
    LET password == lastOp.arg
        tests == PasswordTests(password)
        result == lastOp.ret
    IN /\ result.score \in 0..6
       /\ result.score = Cardinality({i \in DOMAIN tests : tests[i]})
       /\ \A i \in DOMAIN PasswordTips :
            Count(result.feedback, PasswordTips[i]) = IF tests[i] THEN 0 ELSE 1
       /\ Range(result.feedback) \subseteq Range(PasswordTips)
       /\ password = PwWeak => result.score = 1 /\ Len(result.feedback) = 4
       /\ password = PwGood => result.score = 5

\* a password of 12 characters or more that passes every test has been scored
C21_Witness ==
  /\ lastOp.op = "getPasswordStrength"
  /\ Len(lastOp.arg) >= StrongLen
  /\ lastOp.ret.score = 6
  /\ lastOp.ret.feedback = <<>>

Mismatch(payload) == payload.password # payload.confirmPassword
Blames(result, f) == \E i \in DOMAIN result.errors : result.errors[i].field = f

C23_CompletedIsMonotonic ==
  [][Len(appData'.workouts) = Len(appData.workouts) =>
       \A i \in DOMAIN appData.workouts :
          (appData.workouts[i].completed /\ appData'.workouts[i].id = appData.workouts[i].id)
            => appData'.workouts[i].completed]_vars

FirstAt(s, x) == CHOOSE i \in DOMAIN s : s[i] = x /\ \A j \in 1..(i - 1) : s[j] # x

\* C24: for every viewer, the top list counts each exercise name over the
\* viewer's completed workouts only (a workout that is not completed adds
\* to no count); it holds at most 5 names, each once, in descending count
\* order, equal counts in the order the names were first met.
C24_TopExercises ==
  \A v \in Viewers :
    LET top == topExercises(appData, v)
        done == SelectSeq(userWorkouts(appData, v), LAMBDA w : w.completed)
        names == exerciseNames(done)
    IN /\ Len(top) <= TopLen
       /\ Len(top) = IF Cardinality(Range(names)) < TopLen
                       THEN Cardinality(Range(names)) ELSE TopLen
       /\ \A i \in DOMAIN top :
            /\ top[i].name \in Range(names)
            /\ top[i].count = Count(names, top[i].name)
       /\ \A i, j \in DOMAIN top :
            i < j => /\ top[i].name # top[j].name
                     /\ top[i].count >= top[j].count
                     /\ top[i].count = top[j].count =>
                          FirstAt(names, top[i].name) < FirstAt(names, top[j].name)

\* C25: every message in the store has a senderId and a receiverId that
\* each identify a user present in the users collection.
C25_MessageEndsExist ==
  \A i \in DOMAIN appData.messages :
    /\ Get(appData.messages[i], "senderId") \in Ids(users)
    /\ Get(appData.messages[i], "receiverId") \in Ids(users)

Persisted(k) == store[k] # Absent /\ store[k] # Garbage
NoValue == [fallback |-> TRUE]

\* C26: a restart from the store yields in-memory users, session and data
\* equal to the last persisted snapshot, for every snapshot the application
\* wrote (one in which every user has been deleted included); and load
\* returns the fallback only when the key is missing or its text corrupt.
C26_RestartRestores ==
  [][lastOp'.op = "mount" =>
       /\ Persisted("users") => users' = Parse(store.users)
       /\ Persisted("session") => session' = Parse(store.session)
       /\ Persisted("data") => appData' = Parse(store.data)
       /\ \A k \in DOMAIN store :
            Persisted(k) => load(store, k, NoValue) = Parse(store[k])]_vars

\* C27: while a session is installed, its userId identifies a user that is
\* in the users collection: the lookup of the current user finds one.
C27_SessionUserExists ==
  session # null => getUser(users, session.userId) # <<>>

ClientsOf(t) == {u \in Range(users) : u.role = "client" /\ u.trainerId = t.id}

\* C28: for every trainer t, the ids in t.clients are the ids of the users
\* with role client and trainerId = t.id, and each record embedded in
\* t.clients equals the record of that client in the users collection.
C28_ClientListsAgree ==
  \A i \in DOMAIN users :
    users[i].role = "trainer" =>
      /\ Ids(users[i].clients) = {u.id : u \in ClientsOf(users[i])}
      /\ Range(users[i].clients) \subseteq Range(users)

\* C29: for every input s, sanitizeString(s) holds no '<' and no '>', has no
\* whitespace at its start or at its end, and sanitizing it again gives
\* the same text.
C29_SanitizeString ==
  lastOp.op = "sanitizeString" =>
    LET out == lastOp.ret IN
    /\ ~Some(out, IsAngle)
    /\ out # <<>> => ~IsSpace(out[1]) /\ ~IsSpace(out[Len(out)])
    /\ SanitizeString(out) = out

(***************************************************************************)
(* Claims about the useAuth hook, checked under SpecHook.                  *)
(***************************************************************************)
Refused(call) ==
  call.kind = "signUp" /\ ~validateData(userRegistrationSchema(call.arg)).success

\* the step that makes a call whose data the registration schema refuses
SignUpIsRefused ==
  (Len(calls') = Len(calls) + 1 /\ Refused(calls'[Len(calls')])) =>
    LET call == calls'[Len(calls')] IN
    /\ call.invoked = <<>>
    /\ call.outcome = "rejected"
    /\ authState'.user = authState.user
    /\ authState'.error = <<userRegistrationSchema(call.arg)[1].message>>
    /\ ~authState'.loading

\* the step in which a call ends leaves loading = false
EndsNotLoading ==
  \A k \in DOMAIN calls' :
    (calls'[k].outcome # Pending /\ (k \notin DOMAIN calls \/ calls[k].outcome = Pending))
      => ~authState'.loading

\* C30: every signIn, signUp and signOut call eventually ends, resolved or
\* rejected, and leaves loading = false when it does; and a signUp whose
\* data fails userRegistrationSchema never invokes the remote sign-up,
\* rejects, leaves user unchanged and sets error to the first validation
\* message.
C30_CallsEndNotLoading ==
  /\ \A k \in 1..MaxOps :
       (k \in DOMAIN calls) ~>
         (k \in DOMAIN calls /\ calls[k].outcome # Pending /\ ~authState.loading)
  /\ [][EndsNotLoading /\ SignUpIsRefused]_vars

\* a signUp with a short name was refused while a signIn was awaiting the
\* remote: no remote call of its own, the first message as the error, the
\* user as before, loading false
C30_Witness ==
  /\ Len(calls) = 2
  /\ calls[1].kind = "signIn" /\ calls[1].outcome = Pending
  /\ Refused(calls[2]) /\ calls[2].invoked = <<>> /\ calls[2].outcome = "rejected"
  /\ authState.error = <<"Name must be at least 2 characters long">>
  /\ authState.user = null
  /\ ~authState.loading

====
